---- MODULE Spec2Model ----
(***************************************************************************)
(* mofa-studio: the embedded browser surface (WebViewContainer over        *)
(* ManagedWebView) and the plugin process supervisor (PluginLoader over    *)
(* LoadedPlugin), as state machines translated from                        *)
(* src/mofa-widgets/src/webview/{mod,wry_wrapper,ipc}.rs and               *)
(* src/mofa-widgets/src/plugins/loader.rs.                                 *)
(***************************************************************************)
EXTENDS Integers, Sequences, FiniteSets, TLC

\* ------------------------------------------------------------------------
\* Program constants (WebViewContainer, mod.rs:124-128)
\* ------------------------------------------------------------------------
MAX_INIT_ATTEMPTS == 10
RETRY_INTERVAL == 30
INITIAL_DELAY == 10

\* ------------------------------------------------------------------------
\* Bounds of the model
\* ------------------------------------------------------------------------
\* Host frame ticks delivered to a surface in the lifecycle specification:
\* the tenth attempt cannot come before frame 10 + 9 * 30 = 280, an eleventh
\* could not come before frame 310, and frame 311 is a tick past that.
MaxFrame == 311
\* Host frame ticks delivered in the surface specification (bounds, URLs):
\* a first attempt from frame 10, a retry from frame 40.
MaxSurfaceFrame == 41
\* Host frame ticks delivered in the view specification (a held view and its
\* bridge), and the messages the page posts there.
MaxViewFrame == 41
MaxViewMessages == 2

\* Option<T>: None is the empty sequence, Some(v) the sequence of v alone.
None == <<>>
Some(v) == <<v>>
SomeOf(o) == o[1]

Max(a, b) == IF a >= b THEN a ELSE b

Min(a, b) == IF a <= b THEN a ELSE b

\* The Display of an unsigned integer: its decimal digits.
DigitChar(d) ==
    CASE d = 0 -> "0" [] d = 1 -> "1" [] d = 2 -> "2" [] d = 3 -> "3"
      [] d = 4 -> "4" [] d = 5 -> "5" [] d = 6 -> "6" [] d = 7 -> "7"
      [] d = 8 -> "8" [] d = 9 -> "9"

RECURSIVE Digits(_)
Digits(n) ==
    IF n < 10 THEN DigitChar(n) ELSE Digits(n \div 10) \o DigitChar(n % 10)

\* Result<T, E>, and the result of a call that returns nothing
Ok(v) == [ok |-> TRUE, value |-> v]
Err(e) == [ok |-> FALSE, err |-> e]
Unit == [ok |-> TRUE]

\* ------------------------------------------------------------------------
\* Surface state: the fields of WebViewContainer (mod.rs:80-120) and of the
\* ManagedWebView it holds (wry_wrapper.rs:119-124); the notification stream
\* (cx.widget_action) and the platform calls of the last handler.
\* ------------------------------------------------------------------------
VARIABLES
    handler,         \* the handler or method of the container that ran last
    ret,             \* what it returned
    active,          \* WebViewContainer.active
    webview,         \* WebViewContainer.webview: None, or the ManagedWebView
    init_attempts,   \* WebViewContainer.init_attempts
    cached_rect,     \* WebViewContainer.cached_rect: None, or a Rect
    frame_count,     \* WebViewContainer.frame_count
    last_init_frame, \* WebViewContainer.last_init_frame
    emitted,         \* the WebViewActions emitted so far, in order
    calls            \* the platform calls made by the handler that ran last

surfaceVars == <<handler, ret, active, webview, init_attempts, cached_rect, frame_count,
                 last_init_frame, emitted, calls>>

\* Supervisor state: PluginLoader (loader.rs:103-112), the child processes
\* of this program as the operating system sees them, and what the last
\* supervisor call returned.
VARIABLES
    loader_alive,    \* the PluginLoader has not been dropped
    plugins,         \* PluginLoader.plugins: id -> None, or the LoadedPlugin
    procs,           \* every child process spawned so far, by pid
    foreign,         \* ports bound by processes that are not ours
    last             \* the supervisor or process step taken last

loaderVars == <<loader_alive, plugins, procs, foreign, last>>

\* Bridge state: the IpcHandler (ipc.rs:250-253) of the ManagedWebView the
\* surface holds, or one used on its own; every message handed to it and
\* every message a poll returned, in order; and the bridge call made last.
VARIABLES
    callbacks,        \* IpcHandler.callbacks: channel -> the callbacks, in order
    pending_messages, \* IpcHandler.pending_messages
    arrived,          \* the messages passed to handle_message so far
    polled,           \* the messages returned by poll_messages so far
    bridge_last       \* the bridge call made last, what it returned and
                      \* the callbacks it invoked

bridgeVars == <<callbacks, pending_messages, arrived, polled, bridge_last>>

\* Parser state: a JsonValue and a text in hand, and what the parser and
\* from_js made of the text.
VARIABLES
    tree,             \* None, or the JsonValue in hand
    body,             \* None, or the text in hand
    parse_result,     \* None, or what serde_json_minimal_parse returned for the text
    msg               \* None, or the IpcMessage from_js made of the text

parseVars == <<tree, body, parse_result, msg>>

\* Wrapper state: a ManagedWebView (wry_wrapper.rs:119-124) used on its own,
\* the platform views built for it, and the method called last.
VARIABLES
    managed,          \* the ManagedWebView: webview, config and visible
    built,            \* how many platform views have been built
    managed_last      \* the method called last, what it returned and its platform calls

wrapperVars == <<managed, built, managed_last>>

\* Lock state: the mutex ManagedWebView puts around its IpcHandler
\* (wry_wrapper.rs:122, 132), the ipc closure's position in its body, and
\* the registered callbacks whose body locks that mutex.
VARIABLES
    ipc_lock,         \* None, or the thread that holds the mutex
    closure,          \* where the ipc closure is: idle, dispatching or blocked
    relocking         \* the callbacks that call lock() on the bridge

lockVars == <<ipc_lock, closure, relocking>>

\* Screen state: a PluginScreen (screen.rs:220-244) over the surface and the
\* loader, the widget actions of the surface it has handled, and the URL
\* loads it has issued.
VARIABLES
    plugin_id,        \* None, or the id of the plugin the screen is bound to
    url_loaded,       \* whether a URL has been loaded
    load_url_timer,   \* whether the timeout started last is still to fire
    pending_url_load, \* whether the screen waits for the timer to load the URL
    actions_seen,     \* how many notifications of the surface the screen has handled
    starts,           \* how many starts of the screen have succeeded
    loads             \* the URL loads the screen has issued to the surface

screenVars ==
    <<plugin_id, url_loaded, load_url_timer, pending_url_load, actions_seen,
      starts, loads>>

vars ==
    <<surfaceVars, loaderVars, bridgeVars, parseVars, wrapperVars, lockVars,
      screenVars>>

\* Rects a layout pass can produce (makepad Rect: pos and size).
Rect(x, y, w, h) == [x |-> x, y |-> y, w |-> w, h |-> h]
RectA == Rect(2, 1, 4, 3)
\* an empty width, as of a collapsed widget
RectC == Rect(0, 0, 0, 3)
RectD == Rect(0, 0, 1, 3)

\* WebViewBounds::new / the conversions of mod.rs:143-157 and 205-210
WebViewBounds(x, y, width, height) ==
    [x |-> x, y |-> y, width |-> width, height |-> height]

\* Rect -> WebViewBounds: sizes are clamped to at least 1.
BoundsOfRect(rect) ==
    WebViewBounds(rect.x, rect.y, Max(rect.w, 1), Max(rect.h, 1))

\* The bounds initialize_webview builds the view with (mod.rs:143-157).
InitialBounds ==
    IF cached_rect # None THEN BoundsOfRect(SomeOf(cached_rect))
    ELSE WebViewBounds(0, 0, 800, 600)

\* The `url` property of the container as the live design leaves it.
url == ""

\* The URL initialize_webview puts in the config (mod.rs:159-163).
InitialUrl == IF url = "" THEN "about:blank" ELSE url

\* WebViewError's Display (wry_wrapper.rs:80-89), PlatformHandleError's
\* (platform_handle.rs:16-24).
ErrorText(e) ==
    CASE e = "NoWindow" -> "Platform handle error: No window available"
      [] e = "NotOnMainThread" -> "Platform handle error: Must be called from main thread"
      [] e = "UnsupportedPlatform" -> "Platform handle error: Unsupported platform"
      [] e = "WryError" -> "Wry error"
      [] e = "NotInitialized" -> "WebView not initialized"
      [] e = "AlreadyInitialized" -> "WebView already initialized"

\* WebViewAction (mod.rs:64-76)
Initialized == [kind |-> "Initialized"]
InitFailed(text) == [kind |-> "InitFailed", text |-> text]
UrlChanged(u) == [kind |-> "UrlChanged", url |-> u]
IpcMessageAction(channel, data) ==
    [kind |-> "IpcMessage", channel |-> channel, data |-> data]

\* A platform call: the operation, its argument, whether the platform accepted it.
Call(op, arg, ok) == [op |-> op, arg |-> arg, ok |-> ok]

\* ManagedWebView::new (wry_wrapper.rs:128-135) followed by a successful
\* ManagedWebView::initialize (wry_wrapper.rs:140-172).
ManagedWebView(config) ==
    [bounds |-> config.bounds, url |-> config.url, visible |-> TRUE]

\* ManagedWebView::set_visible (wry_wrapper.rs:231-237): the field follows the
\* platform call only when the platform accepts it.
set_visible(w, visible, ok) ==
    IF ok THEN [w EXCEPT !.visible = visible] ELSE w

\* ManagedWebView::set_bounds (wry_wrapper.rs:180-186)
set_bounds(w, bounds, ok) ==
    IF ok THEN [w EXCEPT !.bounds = bounds] ELSE w

\* The environment of a specification: the frame budget and the inputs the
\* host and the platform can produce.
\* `observe` tells whether the handler that ran is recorded by name.
\* LifeEnv is a host on which no native handle can be had
\* (platform_handle.rs:136-142: get_native_handle on an unsupported platform),
\* so that every attempt fails.
LifeEnv ==
    [maxFrame |-> MaxFrame,
     rects |-> {RectA},
     results |-> {"UnsupportedPlatform"},
     platformOk |-> {TRUE},
     urls |-> {},
     observe |-> FALSE]

SurfaceEnv ==
    [maxFrame |-> MaxSurfaceFrame,
     rects |-> {RectA, RectC, RectD},
     results |-> {"Ok", "NoWindow", "WryError"},
     platformOk |-> {TRUE, FALSE},
     urls |-> {"http://127.0.0.1:49152"},
     observe |-> TRUE]

\* The record of which handler ran.
Ran(env, name) == IF env.observe THEN name ELSE "host"

\* ------------------------------------------------------------------------
\* The JSON values, parser and serializer of the bridge (ipc.rs:41-244).
\* A text is a string; CharAt gives the char at a position of the iterator
\* (Peekable<Chars>), which is at its end when the position is past the
\* length.
\* ------------------------------------------------------------------------
CharAt(s, i) == SubSeq(s, i, i)

AtEnd(s, i) == i > Len(s)

\* JsonValue (ipc.rs:43-50). A number is an f64; the model holds it as the
\* decimal (-1)^neg * n / 10^d with no trailing zero in the fraction, which
\* is exact for the short decimals the model parses. An object is a HashMap:
\* a set of <<key, value>> pairs with one pair per key.
JNull == <<"Null">>
JBool(b) == <<"Bool", b>>
JNumber(neg, n, d) == <<"Number", neg, n, d>>
JString(s) == <<"String", s>>
JArray(items) == <<"Array", items>>
JObject(map) == <<"Object", map>>

\* JsonValue::as_str (ipc.rs:53-59)
as_str(v) == IF v[1] = "String" THEN Some(v[2]) ELSE None

\* JsonValue::get (ipc.rs:61-67)
get(v, key) ==
    IF v[1] = "Object" /\ \E e \in v[2] : e[1] = key
    THEN Some((CHOOSE e \in v[2] : e[1] = key)[2])
    ELSE None

\* HashMap::insert: the value of a key that is already there is replaced.
insert(map, key, value) == {e \in map : e[1] # key} \cup {<<key, value>>}

\* Result<JsonValue, ()> together with the position the iterator is left at.
POk(v, i) == [ok |-> TRUE, value |-> v, pos |-> i]
PErr == [ok |-> FALSE, value |-> JNull, pos |-> 0]

\* char::is_whitespace, for the white space a page can post.
is_whitespace(c) == c \in {" ", "\t", "\n", "\r"}

is_ascii_digit(c) == c \in {"0", "1", "2", "3", "4", "5", "6", "7", "8", "9"}

\* skip_whitespace (ipc.rs:117-125)
RECURSIVE skip_whitespace(_, _)
skip_whitespace(s, i) ==
    IF ~AtEnd(s, i) /\ is_whitespace(CharAt(s, i))
    THEN skip_whitespace(s, i + 1)
    ELSE i

\* str::trim
RECURSIVE trim_end(_)
trim_end(s) ==
    IF Len(s) > 0 /\ is_whitespace(CharAt(s, Len(s)))
    THEN trim_end(SubSeq(s, 1, Len(s) - 1))
    ELSE s

trim(s) == LET t == trim_end(s) IN SubSeq(t, skip_whitespace(t, 1), Len(t))

\* The char an escape stands for (ipc.rs:135-143)
unescape(e) ==
    CASE e = "n" -> "\n"
      [] e = "r" -> "\r"
      [] e = "t" -> "\t"
      [] OTHER -> e

\* parse_string (ipc.rs:127-149): the loop, from position p with the chars
\* pushed so far.
RECURSIVE parse_string_loop(_, _, _)
parse_string_loop(s, p, acc) ==
    IF AtEnd(s, p) THEN PErr
    ELSE IF CharAt(s, p) = "\"" THEN POk(JString(acc), p + 1)
    ELSE IF CharAt(s, p) = "\\"
    THEN IF AtEnd(s, p + 1) THEN PErr
         ELSE parse_string_loop(s, p + 2, acc \o unescape(CharAt(s, p + 1)))
    ELSE parse_string_loop(s, p + 1, acc \o CharAt(s, p))

\* parse_string: the first char is consumed as the opening quote, whatever
\* it is (ipc.rs:128).
parse_string(s, i) == parse_string_loop(s, i + 1, "")

\* parse_bool (ipc.rs:212-222): four chars are taken; after "fals" one more
\* char is consumed, whatever it is.
parse_bool(s, i) ==
    LET t == SubSeq(s, i, Min(i + 3, Len(s))) IN
    IF t = "true" THEN POk(JBool(TRUE), i + 4)
    ELSE IF t = "fals" THEN POk(JBool(FALSE), Min(i + 5, Len(s) + 1))
    ELSE PErr

\* parse_null (ipc.rs:224-231)
parse_null(s, i) ==
    IF SubSeq(s, i, Min(i + 3, Len(s))) = "null" THEN POk(JNull, i + 4)
    ELSE PErr

\* The one element of a set of one element. The results of the parsers are
\* taken through it: each is computed once, as the code computes it.
The(S) == CHOOSE x \in S : TRUE

\* The chars parse_number collects (ipc.rs:236)
is_number_char(c) == is_ascii_digit(c) \/ c \in {".", "-", "e", "E", "+"}

\* The position after the run of number chars that starts at i
RECURSIVE number_end(_, _)
number_end(s, i) ==
    IF ~AtEnd(s, i) /\ is_number_char(CharAt(s, i))
    THEN number_end(s, i + 1)
    ELSE i

\* The position after the run of digits that starts at i
RECURSIVE digits_end(_, _)
digits_end(t, i) ==
    IF ~AtEnd(t, i) /\ is_ascii_digit(CharAt(t, i))
    THEN digits_end(t, i + 1)
    ELSE i

DigitVal(c) ==
    CASE c = "0" -> 0 [] c = "1" -> 1 [] c = "2" -> 2 [] c = "3" -> 3
      [] c = "4" -> 4 [] c = "5" -> 5 [] c = "6" -> 6 [] c = "7" -> 7
      [] c = "8" -> 8 [] c = "9" -> 9

\* The number a run of digits denotes (0 for the empty run)
RECURSIVE NatOf(_)
NatOf(t) ==
    IF Len(t) = 0 THEN 0
    ELSE 10 * NatOf(SubSeq(t, 1, Len(t) - 1)) + DigitVal(CharAt(t, Len(t)))

RECURSIVE Pow10(_)
Pow10(d) == IF d = 0 THEN 1 ELSE 10 * Pow10(d - 1)

\* The decimal n / 10^d without trailing zeros in its fraction
RECURSIVE strip_zeros(_, _, _)
strip_zeros(neg, n, d) ==
    IF d > 0 /\ n % 10 = 0 THEN strip_zeros(neg, n \div 10, d - 1)
    ELSE JNumber(neg, n, d)

\* The f64 that mant * 10^exp is
decimal(neg, mant, exp) ==
    IF mant = 0 THEN JNumber(neg, 0, 0)
    ELSE IF exp >= 0 THEN JNumber(neg, mant * Pow10(exp), 0)
    ELSE strip_zeros(neg, mant, 0 - exp)

\* str::parse::<f64> (ipc.rs:243): an optional sign, digits with an optional
\* point among them (at least one digit), an optional exponent with its own
\* optional sign and at least one digit, and nothing else.
parse_f64(t) ==
    LET signed == ~AtEnd(t, 1) /\ CharAt(t, 1) \in {"-", "+"}
        neg == ~AtEnd(t, 1) /\ CharAt(t, 1) = "-"
        a == IF signed THEN 2 ELSE 1
        b == digits_end(t, a)
        hasDot == ~AtEnd(t, b) /\ CharAt(t, b) = "."
        c == IF hasDot THEN b + 1 ELSE b
        d == digits_end(t, c)
        hasExp == ~AtEnd(t, d) /\ CharAt(t, d) \in {"e", "E"}
        expSigned == hasExp /\ ~AtEnd(t, d + 1) /\ CharAt(t, d + 1) \in {"-", "+"}
        expNeg == expSigned /\ CharAt(t, d + 1) = "-"
        e1 == IF expSigned THEN d + 2 ELSE d + 1
        e2 == IF hasExp THEN digits_end(t, e1) ELSE d
        mant == NatOf(SubSeq(t, a, b - 1) \o SubSeq(t, c, d - 1))
        ex == IF hasExp THEN NatOf(SubSeq(t, e1, e2 - 1)) ELSE 0
        exp == (IF expNeg THEN 0 - ex ELSE ex) - (d - c)
    IN  IF /\ (b - a) + (d - c) >= 1
           /\ hasExp => e2 > e1
           /\ AtEnd(t, e2)
        THEN [ok |-> TRUE, value |-> decimal(neg, mant, exp)]
        ELSE [ok |-> FALSE, value |-> JNull]

\* parse_number (ipc.rs:233-244)
parse_number(s, i) ==
    The({The({IF r.ok THEN POk(r.value, j) ELSE PErr :
              r \in {parse_f64(SubSeq(s, i, j - 1))}}) :
         j \in {number_end(s, i)}})

RECURSIVE parse_value(_, _)
RECURSIVE parse_array_loop(_, _, _)
RECURSIVE parse_object_loop(_, _, _)

\* parse_array (ipc.rs:189-210): the loop, from position p with the values
\* pushed so far.
parse_array_loop(s, p, arr) ==
    The({IF ~v.ok THEN PErr
         ELSE The({IF AtEnd(s, q) THEN PErr
                   ELSE IF CharAt(s, q) = ","
                   THEN parse_array_loop(s, q + 1, Append(arr, v.value))
                   ELSE IF CharAt(s, q) = "]"
                   THEN POk(JArray(Append(arr, v.value)), q + 1)
                   ELSE PErr :
                   q \in {skip_whitespace(s, v.pos)}}) :
         v \in {parse_value(s, p)}})

parse_array(s, i) ==
    The({IF ~AtEnd(s, p) /\ CharAt(s, p) = "]" THEN POk(JArray(<<>>), p + 1)
         ELSE parse_array_loop(s, p, <<>>) :
         p \in {skip_whitespace(s, i + 1)}})

\* The rest of an iteration of the loop of parse_object, after the key k: the
\* colon at position c, the value, its insertion into the map and the
\* separator (ipc.rs:171-185). A key that is already in the map is inserted
\* again.
parse_object_entry(s, c, k, map) ==
    IF AtEnd(s, c) \/ CharAt(s, c) # ":" THEN PErr
    ELSE The({IF ~v.ok THEN PErr
              ELSE The({IF AtEnd(s, q) THEN PErr
                        ELSE IF CharAt(s, q) = ","
                        THEN parse_object_loop(s, q + 1, insert(map, k, v.value))
                        ELSE IF CharAt(s, q) = "}"
                        THEN POk(JObject(insert(map, k, v.value)), q + 1)
                        ELSE PErr :
                        q \in {skip_whitespace(s, v.pos)}}) :
              v \in {parse_value(s, c + 1)}})

\* parse_object (ipc.rs:151-187): the loop, from position p with the entries
\* inserted so far.
parse_object_loop(s, p, map) ==
    The({IF ~k.ok THEN PErr
         ELSE parse_object_entry(s, skip_whitespace(s, k.pos), k.value[2], map) :
         k \in {parse_string(s, skip_whitespace(s, p))}})

parse_object(s, i) ==
    The({IF ~AtEnd(s, p) /\ CharAt(s, p) = "}" THEN POk(JObject({}), p + 1)
         ELSE parse_object_loop(s, p, {}) :
         p \in {skip_whitespace(s, i + 1)}})

\* parse_value (ipc.rs:103-115)
parse_value(s, i) ==
    The({IF AtEnd(s, p) THEN PErr
         ELSE IF CharAt(s, p) = "\"" THEN parse_string(s, p)
         ELSE IF CharAt(s, p) = "{" THEN parse_object(s, p)
         ELSE IF CharAt(s, p) = "[" THEN parse_array(s, p)
         ELSE IF CharAt(s, p) \in {"t", "f"} THEN parse_bool(s, p)
         ELSE IF CharAt(s, p) = "n" THEN parse_null(s, p)
         ELSE IF is_ascii_digit(CharAt(s, p)) \/ CharAt(s, p) = "-" THEN parse_number(s, p)
         ELSE PErr :
         p \in {skip_whitespace(s, i)}})

\* serde_json_minimal_parse (ipc.rs:98-101): what follows the value in the
\* text is not looked at.
serde_json_minimal_parse(json) ==
    The({IF r.ok THEN Ok(r.value) ELSE Err("()") : r \in {parse_value(trim(json), 1)}})

\* String::replace of backslash and then of double quote (ipc.rs:76)
RECURSIVE escape(_)
escape(t) ==
    IF Len(t) = 0 THEN ""
    ELSE (IF Head(t) = "\\" THEN "\\\\"
          ELSE IF Head(t) = "\"" THEN "\\\""
          ELSE Head(t)) \o escape(Tail(t))

RECURSIVE zeros(_)
zeros(k) == IF k <= 0 THEN "" ELSE "0" \o zeros(k - 1)

\* Display of an f64 (ipc.rs:75): no exponent, no fraction for a whole number
number_text(neg, n, d) ==
    (IF neg THEN "-" ELSE "") \o
    (IF d = 0 THEN Digits(n)
     ELSE LET frac == Digits(n % Pow10(d)) IN
          Digits(n \div Pow10(d)) \o "." \o zeros(d - Len(frac)) \o frac)

\* Display for JsonValue (ipc.rs:70-95): the texts `{}` can give. An object
\* is written in the iteration order of its HashMap, which is any order; its
\* keys are written as they are, between quotes.
RECURSIVE Display(_)
RECURSIVE DisplayItems(_)
RECURSIVE DisplayEntries(_)

DisplayItems(arr) ==
    IF Len(arr) = 0 THEN {""}
    ELSE IF Len(arr) = 1 THEN Display(arr[1])
    ELSE {a \o "," \o b : a \in Display(arr[1]), b \in DisplayItems(Tail(arr))}

DisplayEntries(map) ==
    IF map = {} THEN {""}
    ELSE UNION {{"\"" \o e[1] \o "\":" \o v \o (IF map = {e} THEN "" ELSE ",") \o r :
                     v \in Display(e[2]), r \in DisplayEntries(map \ {e})} :
                e \in map}

Display(v) ==
    CASE v[1] = "Null" -> {"null"}
      [] v[1] = "Bool" -> {IF v[2] THEN "true" ELSE "false"}
      [] v[1] = "Number" -> {number_text(v[2], v[3], v[4])}
      [] v[1] = "String" -> {"\"" \o escape(v[2]) \o "\""}
      [] v[1] = "Array" -> {"[" \o t \o "]" : t \in DisplayItems(v[2])}
      [] v[1] = "Object" -> {"{" \o t \o "}" : t \in DisplayEntries(v[2])}

\* IpcMessage (ipc.rs:10-15)
IpcMessage(channel, data) == [channel |-> channel, data |-> data]

\* from_js with the trimmed text, the one the parser saw, as the data of the
\* fallback.
from_js_trimmed(json) ==
    UNION {IF r.ok /\ get(r.value, "channel") # None /\ get(r.value, "data") # None
              /\ as_str(SomeOf(get(r.value, "channel"))) # None
           THEN {IpcMessage(SomeOf(as_str(SomeOf(get(r.value, "channel")))), t) :
                     t \in Display(SomeOf(get(r.value, "data")))}
           ELSE {IpcMessage("default", trim(json))} :
           r \in {serde_json_minimal_parse(json)}}

\* from_js with the content of a string, as as_str gives it, as the data.
from_js_unquoted(json) ==
    UNION {IF r.ok /\ get(r.value, "channel") # None /\ get(r.value, "data") # None
              /\ as_str(SomeOf(get(r.value, "channel"))) # None
           THEN IF as_str(SomeOf(get(r.value, "data"))) # None
                THEN {IpcMessage(SomeOf(as_str(SomeOf(get(r.value, "channel")))),
                                 SomeOf(as_str(SomeOf(get(r.value, "data")))))}
                ELSE {IpcMessage(SomeOf(as_str(SomeOf(get(r.value, "channel")))), t) :
                          t \in Display(SomeOf(get(r.value, "data")))}
           ELSE {IpcMessage("default", json)} :
           r \in {serde_json_minimal_parse(json)}}

\* IpcMessage::from_js (ipc.rs:19-38): the messages a text can become (one,
\* unless the data is an object that has more than one order to be written
\* in).
from_js(json) ==
    UNION {IF r.ok /\ get(r.value, "channel") # None /\ get(r.value, "data") # None
              /\ as_str(SomeOf(get(r.value, "channel"))) # None
           THEN {IpcMessage(SomeOf(as_str(SomeOf(get(r.value, "channel")))), t) :
                     t \in Display(SomeOf(get(r.value, "data")))}
           ELSE {IpcMessage("default", json)} :
           r \in {serde_json_minimal_parse(json)}}

\* ------------------------------------------------------------------------
\* The parser and from_js applied: the values and texts they are given.
\* ------------------------------------------------------------------------
\* The most items of an array and entries of an object among the values.
MaxItems == 2

Leaves ==
    {JNull, JBool(TRUE), JNumber(FALSE, 42, 0), JString("hello")}

Scalars ==
    Leaves \cup
    {JBool(FALSE), JNumber(FALSE, 0, 0), JNumber(TRUE, 0, 0), JNumber(TRUE, 25, 1),
     JNumber(FALSE, 5, 2), JNumber(FALSE, 1000, 0),
     JString(""), JString("two words"), JString("line\nbreak"),
     JString("say \"hi\""), JString("back\\slash"), JString("\\n"), JString("\\\"")}

Keys == {"k", "data", "a\"b", "a\\b"}

ArraysOf(S) == UNION {[1..n -> S] : n \in 0..MaxItems}

ObjectsOf(K, S) ==
    UNION {{{<<k, f[k]>> : k \in ks} : f \in [ks -> S]} :
           ks \in {x \in SUBSET K : Cardinality(x) <= MaxItems}}

Values ==
    Scalars
    \cup {JArray(a) : a \in ArraysOf(Leaves)}
    \cup {JObject(m) : m \in ObjectsOf(Keys, Leaves)}
    \cup {JArray(<<JObject(m)>>) : m \in ObjectsOf({"k"}, Scalars)}
    \cup {JObject({<<"k", JArray(a)>>}) : a \in ArraysOf({JNull, JString("say \"hi\"")})}

\* Texts of the values a page can post as `channel` and as `data`.
ChannelTexts == {"\"demo\"", "\"default\"", "\"a b\"", "1", "null", "[\"demo\"]"}

DataTexts ==
    {"\"hello\"", "\"\"", "\"say \\\"hi\\\"\"", "42", "-2.5", "0.50", "1e2", "true",
     "false", "null", "[]", "[1, \"a\"]", "{}", "{\"a\":1}", "{\"a\":1,\"b\":[null]}",
     "{\"channel\":\"inner\",\"data\":2}"}

\* What window.ipc.postMessage can pass: texts of messages in either field
\* order, with extra fields and white space, with a field missing, texts of
\* other values, and texts that are not JSON.
Bodies ==
    {"{\"channel\":" \o c \o ",\"data\":" \o d \o "}" : c \in ChannelTexts, d \in DataTexts}
    \cup {"{\"data\":" \o d \o ",\"channel\":" \o c \o "}" : c \in ChannelTexts, d \in DataTexts}
    \cup {" { \"id\" : 7 , \"channel\" : " \o c \o " , \"data\" : " \o d \o " } \n" :
              c \in ChannelTexts, d \in DataTexts}
    \cup {"{\"channel\":" \o c \o "}" : c \in ChannelTexts}
    \cup {"{\"data\":" \o d \o "}" : d \in DataTexts}
    \cup DataTexts
    \cup {"not json", "", " ", "{", "[", "\"open", "{\"channel\":\"demo\",\"data\":}",
          "{\"channel\":\"demo\" \"data\":1}", "{\"channel\" \"demo\",\"data\":1}",
          "{\"channel\":\"demo\",\"data\":1", "tru", "nul", "-", "1.2.3", "1e",
          "{\"channel\":\"demo\",\"data\":1,}",
          "{\"channel\":\"demo\",\"data\":[1,]}",
          "{\"channel\":\"demo\",\"data\":{\"a\":1,}}",
          "{\"channel\":\"demo\",\"data\":[[1,2,],3]}",
          "[1,]", "{\"a\":1,}",
          "{\"channel\":\"demo\",\"data\":[1,{\"a\":tru}]}",
          "{\"channel\":\"demo\",\"data\":{\"a\":[1,{\"b\":}]}}",
          "{\"channel\":\"demo\",\"data\":[1 2]}",
          "{\"channel\":\"a\",\"channel\":\"demo\",\"data\":1}",
          "{\"channel\":\"demo\",\"data\":1,\"data\":2}",
          "{\"channel\":\"demo\",\"channel\":7,\"data\":1}",
          "{\"channel\":\"demo\",\"data\":{\"a\":1,\"a\":2}}",
          "{\"a\":1,\"a\":2}"}

\* JsonValue::to_string on the value in hand: one of the texts Display gives.
to_string ==
    /\ tree # None
    /\ body = None
    /\ body' \in {Some(t) : t \in Display(SomeOf(tree))}
    /\ UNCHANGED <<tree, parse_result, msg>>
    /\ UNCHANGED <<surfaceVars, loaderVars, bridgeVars, wrapperVars, lockVars, screenVars>>

\* serde_json_minimal_parse on the text in hand
Parse ==
    /\ body # None
    /\ parse_result = None
    /\ parse_result' = Some(serde_json_minimal_parse(SomeOf(body)))
    /\ UNCHANGED <<tree, body, msg>>
    /\ UNCHANGED <<surfaceVars, loaderVars, bridgeVars, wrapperVars, lockVars, screenVars>>

\* IpcMessage::from_js on the text in hand
FromJs ==
    /\ body # None
    /\ msg = None
    /\ msg' \in {Some(m) : m \in from_js(SomeOf(body))}
    /\ UNCHANGED <<tree, body, parse_result>>
    /\ UNCHANGED <<surfaceVars, loaderVars, bridgeVars, wrapperVars, lockVars, screenVars>>

\* Nothing in hand.
ParseIdle ==
    /\ tree = None
    /\ body = None
    /\ parse_result = None
    /\ msg = None

\* A value or a text in hand, nothing done with it yet.
ParseInit ==
    /\ \/ tree \in {Some(v) : v \in Values} /\ body = None
       \/ tree = None /\ body \in {Some(t) : t \in Bodies}
    /\ parse_result = None
    /\ msg = None

\* ------------------------------------------------------------------------
\* Message bridge: IpcHandler (ipc.rs:250-297)
\* ------------------------------------------------------------------------
\* Channels a page posts on and a host registers callbacks for.
Channels == {"demo", "default"}

\* The most messages handed to a bridge, and the most callbacks registered.
MaxMessages == 3
MaxCallbacks == 3

\* Messages a page produces: two on a named channel, and one on the default
\* channel, as the fallback of from_js yields for text that is not a message.
Messages ==
    {IpcMessage("demo", "\"hello\""),
     IpcMessage("demo", "42"),
     IpcMessage("default", "not json")}

\* A bridge call: the method, what it returned and the callbacks it invoked.
BridgeStep(op, r, invoked) == [op |-> op, ret |-> r, invoked |-> invoked]

\* One invocation of a registered callback with a message.
Invocation(cb, message) == [cb |-> cb, message |-> message]

\* The environment of an IpcHandler used on its own: the messages that
\* arrive, and how many of them and of callbacks there are.
BridgeEnv ==
    [messages |-> Messages, maxMessages |-> MaxMessages,
     maxCallbacks |-> MaxCallbacks]

\* The callbacks registered so far; a callback is named by the number of its
\* registration.
Registered ==
    UNION {{callbacks[c][i] : i \in 1..Len(callbacks[c])} : c \in Channels}

\* IpcHandler::on (ipc.rs:265-273)
on(env, channel) ==
    /\ Cardinality(Registered) < env.maxCallbacks
    /\ callbacks' = [callbacks EXCEPT ![channel] =
                        Append(@, Cardinality(Registered) + 1)]
    /\ bridge_last' = BridgeStep("on", <<>>, <<>>)
    /\ UNCHANGED <<pending_messages, arrived, polled>>
    /\ UNCHANGED <<surfaceVars, loaderVars, parseVars, wrapperVars>>

On(env) ==
    /\ \E channel \in Channels : on(env, channel)
    /\ UNCHANGED <<lockVars, screenVars>>

\* The dispatch calling the callback registered last first.
dispatch_newest_first(message) ==
    [i \in 1..Len(callbacks[message.channel]) |->
        Invocation(callbacks[message.channel]
                        [Len(callbacks[message.channel]) + 1 - i], message)]

\* The dispatch of handle_message (ipc.rs:278-282): the callbacks of the
\* message's channel, each called with the message, in the order of the Vec.
dispatch(message) ==
    [i \in 1..Len(callbacks[message.channel]) |->
        Invocation(callbacks[message.channel][i], message)]

\* handle_message queueing only what no callback took.
handle_message_unless_dispatched(message) ==
    /\ pending_messages' = IF callbacks[message.channel] = <<>>
                           THEN Append(pending_messages, message)
                           ELSE pending_messages
    /\ arrived' = Append(arrived, message)
    /\ bridge_last' = BridgeStep("handle_message", <<>>, dispatch(message))
    /\ UNCHANGED <<callbacks, polled>>

\* IpcHandler::handle_message (ipc.rs:276-286): the callbacks of the channel
\* are called, then the message is pushed on the pending queue.
handle_message(message) ==
    /\ pending_messages' = Append(pending_messages, message)
    /\ arrived' = Append(arrived, message)
    /\ bridge_last' = BridgeStep("handle_message", <<>>, dispatch(message))
    /\ UNCHANGED <<callbacks, polled>>

HandleMessage(env) ==
    /\ Len(arrived) < env.maxMessages
    /\ \E message \in env.messages : handle_message(message)
    /\ UNCHANGED <<surfaceVars, loaderVars, parseVars, wrapperVars, lockVars, screenVars>>

\* The closure ManagedWebView::initialize gives the platform view
\* (wry_wrapper.rs:158-161): the platform calls it for every message the
\* page posts, and it hands the message to the bridge of the view.
IpcClosure(env) ==
    /\ webview # None
    /\ Len(arrived) < env.maxMessages
    /\ \E message \in env.messages : handle_message(message)
    /\ handler' = Ran(env, "ipc_handler")
    /\ ret' = Unit
    /\ calls' = <<>>
    /\ UNCHANGED <<active, webview, init_attempts, cached_rect, frame_count,
                   last_init_frame, emitted>>
    /\ UNCHANGED <<loaderVars, parseVars, wrapperVars, lockVars, screenVars>>

\* poll_messages returning a copy of the queue.
poll_messages_keep ==
    /\ pending_messages' = pending_messages
    /\ polled' = polled \o pending_messages
    /\ bridge_last' = BridgeStep("poll_messages", pending_messages, <<>>)
    /\ UNCHANGED <<callbacks, arrived>>
    /\ UNCHANGED <<surfaceVars, loaderVars, parseVars, wrapperVars, lockVars, screenVars>>

\* IpcHandler::poll_messages (ipc.rs:289-291): std::mem::take
poll_messages ==
    /\ pending_messages' = <<>>
    /\ polled' = polled \o pending_messages
    /\ bridge_last' = BridgeStep("poll_messages", pending_messages, <<>>)
    /\ UNCHANGED <<callbacks, arrived>>
    /\ UNCHANGED <<surfaceVars, loaderVars, parseVars, wrapperVars, lockVars, screenVars>>

\* IpcHandler::new (ipc.rs:257-262)
BridgeInit ==
    /\ callbacks = [c \in Channels |-> <<>>]
    /\ pending_messages = <<>>
    /\ arrived = <<>>
    /\ polled = <<>>
    /\ bridge_last = BridgeStep("new", <<>>, <<>>)

\* handle_event, before the match on the event (mod.rs:293-305): the bridge
\* of a held view is polled and every message it returns is emitted as an
\* IpcMessage notification.
IpcActions(ms) ==
    [i \in 1..Len(ms) |-> IpcMessageAction(ms[i].channel, ms[i].data)]

emitted_after_poll_when_active ==
    IF webview # None /\ active THEN emitted \o IpcActions(pending_messages) ELSE emitted

emitted_after_poll ==
    IF webview # None THEN emitted \o IpcActions(pending_messages) ELSE emitted

\* The drain of handle_event reading the queue without emptying it.
poll_ipc_keep ==
    IF webview # None
    THEN /\ polled' = polled \o pending_messages
         /\ bridge_last' = BridgeStep("poll_messages", pending_messages, <<>>)
         /\ UNCHANGED <<callbacks, arrived, pending_messages>>
    ELSE UNCHANGED bridgeVars

poll_ipc ==
    IF webview # None
    THEN /\ pending_messages' = <<>>
         /\ polled' = polled \o pending_messages
         /\ bridge_last' = BridgeStep("poll_messages", pending_messages, <<>>)
         /\ UNCHANGED <<callbacks, arrived>>
    ELSE UNCHANGED bridgeVars

\* ------------------------------------------------------------------------
\* WebViewContainer
\* ------------------------------------------------------------------------
\* may_attempt without the check that no view is held.
may_attempt_with_view == init_attempts < MAX_INIT_ATTEMPTS

\* may_attempt with the comparison off by one.
may_attempt_off_by_one ==
    webview = None /\ init_attempts <= MAX_INIT_ATTEMPTS

\* The condition under which an attempt may still be made: no view is held
\* and attempts are left (mod.rs:318, and 356; mod.rs:135 returns on its
\* negation).
may_attempt == webview = None /\ init_attempts < MAX_INIT_ATTEMPTS

\* initialize_webview reporting a failure only on the attempt that exhausts
\* the surface.
initialize_webview_report_last(frame, result, bridgeOk) ==
    IF webview # None \/ init_attempts >= MAX_INIT_ATTEMPTS
    THEN /\ UNCHANGED <<webview, init_attempts, last_init_frame, emitted>>
         /\ calls' = <<>>
    ELSE /\ init_attempts' = init_attempts + 1
         /\ last_init_frame' = frame
         /\ IF result = "Ok"
            THEN /\ webview' = Some(ManagedWebView([url |-> InitialUrl,
                                                    bounds |-> InitialBounds]))
                 /\ emitted' = Append(emitted, Initialized)
                 /\ calls' = <<Call("initialize", InitialBounds, TRUE),
                               Call("eval", "ipc_bridge", bridgeOk)>>
            ELSE /\ webview' = webview
                 /\ emitted' = IF init_attempts + 1 = MAX_INIT_ATTEMPTS
                               THEN Append(emitted, InitFailed(ErrorText(result)))
                               ELSE emitted
                 /\ calls' = <<Call("initialize", InitialBounds, FALSE)>>

\* initialize_webview (mod.rs:134-200), called with frame_count already
\* incremented to `frame`; `result` is what ManagedWebView::initialize
\* returns, `bridgeOk` whether the bridge script evaluates.
initialize_webview(frame, result, bridgeOk) ==
    IF ~may_attempt
    THEN /\ UNCHANGED <<webview, init_attempts, last_init_frame, emitted>>
         /\ calls' = <<>>
    ELSE /\ init_attempts' = init_attempts + 1
         /\ last_init_frame' = frame
         /\ IF result = "Ok"
            THEN /\ webview' = Some(ManagedWebView([url |-> InitialUrl,
                                                    bounds |-> InitialBounds]))
                 /\ emitted' = Append(emitted, Initialized)
                 /\ calls' = <<Call("initialize", InitialBounds, TRUE),
                               Call("eval", "ipc_bridge", bridgeOk)>>
            ELSE /\ webview' = webview
                 /\ emitted' = Append(emitted, InitFailed(ErrorText(result)))
                 /\ calls' = <<Call("initialize", InitialBounds, FALSE)>>

\* should_try retrying on the very next frame.
should_try_no_interval(frame) ==
    IF init_attempts = 0
    THEN frame >= INITIAL_DELAY
    ELSE frame >= last_init_frame

\* should_try without the initial delay.
should_try_no_delay(frame) ==
    IF init_attempts = 0
    THEN TRUE
    ELSE frame >= last_init_frame + RETRY_INTERVAL

\* The retry timing of handle_event (mod.rs:319-325) at frame `frame`.
should_try(frame) ==
    IF init_attempts = 0
    THEN frame >= INITIAL_DELAY
    ELSE frame >= last_init_frame + RETRY_INTERVAL

\* NextFrame without the return on an inactive surface.
NextFrame_when_inactive(env) ==
    /\ frame_count < env.maxFrame
    /\ handler' = Ran(env, "NextFrame")
    /\ ret' = Unit
    /\ frame_count' = frame_count + 1
    /\ UNCHANGED <<active, cached_rect>>
    /\ UNCHANGED <<loaderVars, parseVars, wrapperVars, lockVars, screenVars>>
    /\ poll_ipc
    /\ IF may_attempt
       THEN IF should_try(frame_count + 1)
            THEN \E result \in env.results, bridgeOk \in env.platformOk :
                    initialize_webview(frame_count + 1, result, bridgeOk)
            ELSE /\ UNCHANGED <<webview, init_attempts, last_init_frame,
                                emitted>>
                 /\ calls' = <<>>
       ELSE IF webview # None
       THEN \E ok \in env.platformOk :
                /\ webview' = Some(set_visible(SomeOf(webview), TRUE, ok))
                /\ calls' = <<Call("set_visible", TRUE, ok)>>
                /\ UNCHANGED <<init_attempts, last_init_frame>>
                /\ emitted' = emitted_after_poll
       ELSE /\ UNCHANGED <<webview, init_attempts, last_init_frame, emitted>>
            /\ calls' = <<>>

\* handle_event, Event::NextFrame (mod.rs:308-341)
NextFrame(env) ==
    /\ frame_count < env.maxFrame
    /\ handler' = Ran(env, "NextFrame")
    /\ ret' = Unit
    /\ frame_count' = frame_count + 1
    /\ UNCHANGED <<active, cached_rect>>
    /\ UNCHANGED <<loaderVars, parseVars, wrapperVars, lockVars, screenVars>>
    /\ poll_ipc
    /\ IF ~active
       THEN /\ UNCHANGED <<webview, init_attempts, last_init_frame>>
            /\ emitted' = emitted_after_poll
            /\ calls' = <<>>
       ELSE IF may_attempt
       THEN IF should_try(frame_count + 1)
            THEN \E result \in env.results, bridgeOk \in env.platformOk :
                    initialize_webview(frame_count + 1, result, bridgeOk)
            ELSE /\ UNCHANGED <<webview, init_attempts, last_init_frame,
                                emitted>>
                 /\ calls' = <<>>
       ELSE IF webview # None
       THEN \E ok \in env.platformOk :
                /\ webview' = Some(set_visible(SomeOf(webview), TRUE, ok))
                /\ calls' = <<Call("set_visible", TRUE, ok)>>
                /\ UNCHANGED <<init_attempts, last_init_frame>>
                /\ emitted' = emitted_after_poll
       ELSE /\ UNCHANGED <<webview, init_attempts, last_init_frame, emitted>>
            /\ calls' = <<>>

\* sync_bounds (mod.rs:203-216): the view after it, and the calls it makes.
sync_bounds_view(rect, ok) ==
    IF webview # None
    THEN Some(set_bounds(SomeOf(webview), BoundsOfRect(rect), ok))
    ELSE webview

sync_bounds_calls(rect, ok) ==
    IF webview # None THEN <<Call("set_bounds", BoundsOfRect(rect), ok)>>
    ELSE <<>>

\* handle_event, Event::WindowGeomChange (mod.rs:342-349)
WindowGeomChange(env) ==
    /\ handler' = Ran(env, "WindowGeomChange")
    /\ ret' = Unit
    /\ UNCHANGED <<active, init_attempts, cached_rect, frame_count,
                   last_init_frame>>
    /\ UNCHANGED <<loaderVars, parseVars, wrapperVars, lockVars, screenVars>>
    /\ poll_ipc
    /\ emitted' = emitted_after_poll
    /\ IF active /\ cached_rect # None
       THEN \E ok \in env.platformOk :
                /\ webview' = sync_bounds_view(SomeOf(cached_rect), ok)
                /\ calls' = sync_bounds_calls(SomeOf(cached_rect), ok)
       ELSE /\ webview' = webview
            /\ calls' = <<>>

\* draw_walk syncing a changed rect also while the surface is inactive.
draw_walk_sync_inactive(env, new_rect) ==
    /\ handler' = Ran(env, "draw_walk")
    /\ ret' = Unit
    /\ UNCHANGED <<active, init_attempts, frame_count, last_init_frame,
                   emitted>>
    /\ UNCHANGED <<loaderVars, bridgeVars, parseVars, wrapperVars, lockVars, screenVars>>
    /\ IF cached_rect # Some(new_rect)
       THEN /\ cached_rect' = Some(new_rect)
            /\ IF webview # None
               THEN \E ok \in env.platformOk :
                        /\ webview' = sync_bounds_view(new_rect, ok)
                        /\ calls' = sync_bounds_calls(new_rect, ok)
               ELSE /\ webview' = webview
                    /\ calls' = <<>>
       ELSE /\ UNCHANGED <<cached_rect, webview>>
            /\ calls' = <<>>

\* draw_walk (mod.rs:354-378) with the turtle's rect `new_rect`
draw_walk(env, new_rect) ==
    /\ handler' = Ran(env, "draw_walk")
    /\ ret' = Unit
    /\ UNCHANGED <<active, init_attempts, frame_count, last_init_frame,
                   emitted>>
    /\ UNCHANGED <<loaderVars, bridgeVars, parseVars, wrapperVars, lockVars, screenVars>>
    /\ IF cached_rect # Some(new_rect)
       THEN /\ cached_rect' = Some(new_rect)
            /\ IF active /\ webview # None
               THEN \E ok \in env.platformOk :
                        /\ webview' = sync_bounds_view(new_rect, ok)
                        /\ calls' = sync_bounds_calls(new_rect, ok)
               ELSE /\ webview' = webview
                    /\ calls' = <<>>
       ELSE /\ UNCHANGED <<cached_rect, webview>>
            /\ calls' = <<>>

DrawWalk(env) == \E new_rect \in env.rects : draw_walk(env, new_rect)

\* set_active leaving the view as it is when the surface is deactivated.
set_active_no_hide(env, a) ==
    /\ handler' = Ran(env, "set_active")
    /\ ret' = Unit
    /\ UNCHANGED <<init_attempts, cached_rect, frame_count, last_init_frame,
                   emitted, webview>>
    /\ UNCHANGED <<loaderVars, bridgeVars, parseVars, wrapperVars, lockVars, screenVars>>
    /\ active' = a
    /\ calls' = <<>>

\* set_active re-arming the attempts when the surface is activated.
set_active_rearm(env, a) ==
    /\ handler' = Ran(env, "set_active")
    /\ ret' = Unit
    /\ UNCHANGED <<cached_rect, frame_count, last_init_frame, emitted>>
    /\ UNCHANGED <<loaderVars, bridgeVars, parseVars, wrapperVars, lockVars, screenVars>>
    /\ IF active = a
       THEN /\ UNCHANGED <<active, webview, init_attempts>>
            /\ calls' = <<>>
       ELSE /\ active' = a
            /\ init_attempts' = IF a THEN 0 ELSE init_attempts
            /\ IF ~a /\ webview # None
               THEN \E ok \in env.platformOk :
                        /\ webview' = Some(set_visible(SomeOf(webview), FALSE, ok))
                        /\ calls' = <<Call("set_visible", FALSE, ok)>>
               ELSE /\ webview' = webview
                    /\ calls' = <<>>

\* set_active showing the view itself when the surface is activated.
set_active_show_now(env, a) ==
    /\ handler' = Ran(env, "set_active")
    /\ ret' = Unit
    /\ UNCHANGED <<init_attempts, cached_rect, frame_count, last_init_frame,
                   emitted>>
    /\ UNCHANGED <<loaderVars, bridgeVars, parseVars, wrapperVars, lockVars, screenVars>>
    /\ IF active = a
       THEN /\ UNCHANGED <<active, webview>>
            /\ calls' = <<>>
       ELSE /\ active' = a
            /\ IF webview # None
               THEN \E ok \in env.platformOk :
                        /\ webview' = Some(set_visible(SomeOf(webview), a, ok))
                        /\ calls' = <<Call("set_visible", a, ok)>>
               ELSE /\ webview' = webview
                    /\ calls' = <<>>

\* set_active (mod.rs:265-280)
set_active(env, a) ==
    /\ handler' = Ran(env, "set_active")
    /\ ret' = Unit
    /\ UNCHANGED <<init_attempts, cached_rect, frame_count, last_init_frame,
                   emitted>>
    /\ UNCHANGED <<loaderVars, bridgeVars, parseVars, wrapperVars, lockVars, screenVars>>
    /\ IF active = a
       THEN /\ UNCHANGED <<active, webview>>
            /\ calls' = <<>>
       ELSE /\ active' = a
            /\ IF ~a /\ webview # None
               THEN \E ok \in env.platformOk :
                        /\ webview' = Some(set_visible(SomeOf(webview), FALSE, ok))
                        /\ calls' = <<Call("set_visible", FALSE, ok)>>
               ELSE /\ webview' = webview
                    /\ calls' = <<>>

SetActive(env) == \E a \in BOOLEAN : set_active(env, a)

\* The script send_to_js evaluates (wry_wrapper.rs:251-259)
receive_script(channel, data) ==
    "if (window.__mofa_ipc && window.__mofa_ipc.receive) { window.__mofa_ipc.receive(\""
        \o channel \o "\", " \o data \o "); }"

\* ManagedWebView::load_url (wry_wrapper.rs:194-201): the platform view
\* navigates unless the platform refuses.
load_url_view(w, u, ok) == IF ok THEN [w EXCEPT !.url = u] ELSE w

\* WebViewContainer::load_url (mod.rs:219-225)
load_url(env, u) ==
    /\ handler' = Ran(env, "load_url")
    /\ UNCHANGED <<active, init_attempts, cached_rect, frame_count,
                   last_init_frame, emitted>>
    /\ UNCHANGED <<loaderVars, bridgeVars, parseVars, wrapperVars, lockVars>>
    /\ IF webview # None
       THEN \E ok \in env.platformOk :
                /\ webview' = Some(load_url_view(SomeOf(webview), u, ok))
                /\ calls' = <<Call("load_url", u, ok)>>
                /\ ret' = IF ok THEN Unit ELSE Err("WryError")
       ELSE /\ webview' = webview
            /\ calls' = <<>>
            /\ ret' = Err("NotInitialized")

LoadUrl(env) ==
    /\ \E u \in env.urls : load_url(env, u)
    /\ UNCHANGED screenVars

\* eval returning Ok(()) when there is no view, as set_visible of the wrapper
\* does.
eval_silent(env, op, js) ==
    /\ handler' = Ran(env, op)
    /\ UNCHANGED <<active, webview, init_attempts, cached_rect, frame_count,
                   last_init_frame, emitted>>
    /\ UNCHANGED <<loaderVars, bridgeVars, parseVars, wrapperVars, lockVars, screenVars>>
    /\ IF webview # None
       THEN \E ok \in env.platformOk :
                /\ calls' = <<Call("evaluate_script", js, ok)>>
                /\ ret' = IF ok THEN Unit ELSE Err("WryError")
       ELSE /\ calls' = <<>>
            /\ ret' = Unit

\* WebViewContainer::eval (mod.rs:228-234) and ManagedWebView::eval
\* (wry_wrapper.rs:204-211), called as the method `op` of the container
eval(env, op, js) ==
    /\ handler' = Ran(env, op)
    /\ UNCHANGED <<active, webview, init_attempts, cached_rect, frame_count,
                   last_init_frame, emitted>>
    /\ UNCHANGED <<loaderVars, bridgeVars, parseVars, wrapperVars, lockVars, screenVars>>
    /\ IF webview # None
       THEN \E ok \in env.platformOk :
                /\ calls' = <<Call("evaluate_script", js, ok)>>
                /\ ret' = IF ok THEN Unit ELSE Err("WryError")
       ELSE /\ calls' = <<>>
            /\ ret' = Err("NotInitialized")

Eval(env) == \E js \in env.scripts : eval(env, "eval", js)

\* WebViewContainer::send_to_js (mod.rs:237-243) and
\* ManagedWebView::send_to_js (wry_wrapper.rs:250-261)
send_to_js(env, channel, data) == eval(env, "send_to_js", receive_script(channel, data))

SendToJs(env) == \E c \in env.channels, d \in env.data : send_to_js(env, c, d)

\* The container as the live design constructs it (mod.rs:96-119: every
\* #[rust] field starts at its default).
SurfaceInit ==
    /\ handler = "new"
    /\ ret = Unit
    /\ active = FALSE
    /\ webview = None
    /\ init_attempts = 0
    /\ cached_rect = None
    /\ frame_count = 0
    /\ last_init_frame = 0
    /\ emitted = <<>>
    /\ calls = <<>>

\* ------------------------------------------------------------------------
\* Plugin supervisor: LoadedPlugin and PluginLoader (loader.rs)
\* ------------------------------------------------------------------------
\* Ids a caller can name: two on disk and one that no manifest carries.
PluginIds == {"demo", "notes", "ghost"}

\* Ephemeral ports the operating system hands out.
Ports == {49152, 49153}

\* The most child processes the operating system lets this program spawn.
MaxProcs == 3

\* PluginManifest (manifest.rs:24-73), the fields the supervisor reads.
Manifest(id, name, version, type) ==
    [id |-> id, name |-> name, version |-> version, type |-> type]

\* The text of a manifest.json: whether it is well-formed JSON, and the
\* fields it gives (None for a field it leaves out).
ManifestText(wellformed, id, name, version, type) ==
    [wellformed |-> wellformed, id |-> id, name |-> name,
     version |-> version, type |-> type]

\* The entries of the plugins directory: subdirectories whose manifest
\* parses, one whose manifest does not parse, one without a manifest.
DirEntry(name, is_dir, manifest) ==
    [name |-> name, is_dir |-> is_dir, manifest |-> manifest]

Disk ==
    {DirEntry("demo", TRUE,
        Some(ManifestText(TRUE, Some("demo"), Some("Demo"), Some("1.0"), None))),
     DirEntry("notes", TRUE,
        Some(ManifestText(TRUE, Some("notes"), Some("Notes"), Some("0.2"),
                          Some("WebView")))),
     DirEntry("demo-native", TRUE,
        Some(ManifestText(TRUE, Some("demo"), Some("Demo"), Some("2.0"),
                          Some("Native")))),
     DirEntry("broken", TRUE,
        Some(ManifestText(FALSE, None, None, None, None))),
     DirEntry("partial", TRUE,
        Some(ManifestText(TRUE, Some("ghost"), Some("Ghost"), None, None))),
     DirEntry("empty", TRUE, None),
     DirEntry("README.md", FALSE, None)}

\* std::fs::read_dir yields the entries in an order the platform chooses.
RECURSIVE Orders(_)
Orders(S) ==
    IF S = {} THEN {<<>>}
    ELSE UNION {{<<e>> \o o : o \in Orders(S \ {e})} : e \in S}

ScanOrders == Orders(Disk)

\* from_file taking a manifest without a version.
from_file_no_version(text) ==
    IF text.wellformed /\ text.id # None /\ text.name # None
    THEN Ok(Manifest(SomeOf(text.id), SomeOf(text.name),
                     IF text.version = None THEN "" ELSE SomeOf(text.version),
                     IF text.type = None THEN "WebView" ELSE SomeOf(text.type)))
    ELSE Err("Failed to parse manifest")

\* PluginManifest::from_file (manifest.rs:81-87): id, name and version are
\* required, the type defaults to WebView (manifest.rs:16-20, 43-44).
from_file(text) ==
    IF text.wellformed /\ text.id # None /\ text.name # None
       /\ text.version # None
    THEN Ok(Manifest(SomeOf(text.id), SomeOf(text.name), SomeOf(text.version),
                     IF text.type = None THEN "WebView" ELSE SomeOf(text.type)))
    ELSE Err("Failed to parse manifest")

\* LoadedPlugin::new (loader.rs:30-38)
LoadedPlugin(manifest, dir) ==
    [manifest |-> manifest, dir |-> dir, server_process |-> None,
     server_port |-> None, enabled |-> TRUE]

\* get_url with the host written by name.
UrlOfPort_localhost(port) == "http://localhost:" \o Digits(port)

\* LoadedPlugin::get_url (loader.rs:41-43): format!("http://127.0.0.1:{}", port)
UrlOfPort(port) == "http://127.0.0.1:" \o Digits(port)

get_url(plugin) ==
    IF plugin.server_port # None THEN Some(UrlOfPort(SomeOf(plugin.server_port)))
    ELSE None

\* is_server_running asking the operating system whether the child lives.
is_server_running_alive(plugin) ==
    /\ plugin.server_process # None
    /\ procs[SomeOf(plugin.server_process)].state = "running"

\* LoadedPlugin::is_server_running (loader.rs:91-93)
is_server_running(plugin) == plugin.server_process # None

\* A supervisor step: the call, the id it named, what it returned and the
\* system calls it made.
Step(op, id, r, sys) == [op |-> op, id |-> id, ret |-> r, sys |-> sys]

\* A scan: what it returned, the system calls it made, and the directories
\* whose manifest it loaded, in the order read_dir gave them.
ScanStep(r, sys, dirs) ==
    [op |-> "scan", id |-> "", ret |-> r, sys |-> sys, dirs |-> dirs]

\* A child process: Command::spawn (loader.rs:66-73) starts it running with
\* the port as its argument; it has not bound the port yet.
Child(port, dir) ==
    [state |-> "running", port |-> port, bound |-> FALSE, dir |-> dir]

\* Child::kill then Child::wait (loader.rs:84-85): the process is made to
\* exit, which releases its port, and is reaped.
kill(proc) ==
    IF proc.state = "running"
    THEN [proc EXCEPT !.state = "exited", !.bound = FALSE]
    ELSE proc

wait(proc) == [proc EXCEPT !.state = "reaped", !.bound = FALSE]

\* Ports some live process holds.
BoundPorts ==
    foreign \cup {procs[pid].port : pid \in {q \in 1..Len(procs) : procs[q].bound}}

\* find_available_port (loader.rs:250-255): bind port 0, read the port back,
\* release the listener; None when the bind fails.
find_available_port == {None} \cup {Some(p) : p \in Ports \ BoundPorts}

\* stop_server letting go of the process handle without kill or wait.
stop_server_procs_detach(plugin, ps) == ps

\* stop_server forgetting the port while it keeps the process handle.
stop_server_keep_process(plugin) == [plugin EXCEPT !.server_port = None]

\* stop_server leaving the port recorded.
stop_server_keep_port(plugin) == [plugin EXCEPT !.server_process = None]

\* LoadedPlugin::stop_server (loader.rs:82-88): the plugin after it, the
\* process table after it, and the system calls it makes.
stop_server(plugin) ==
    [plugin EXCEPT !.server_process = None, !.server_port = None]

stop_server_procs(plugin, ps) ==
    IF plugin.server_process # None
    THEN [ps EXCEPT ![SomeOf(plugin.server_process)] = wait(kill(@))]
    ELSE ps

stop_server_sys(plugin) ==
    IF plugin.server_process # None THEN <<"kill", "wait">> ELSE <<>>

\* A LoadedPlugin dropped without its server being stopped.
drop_plugin_leak(entry, ps) == ps

\* Drop for LoadedPlugin (loader.rs:96-100): the process table after an
\* Option<LoadedPlugin> is dropped.
drop_plugin(entry, ps) ==
    IF entry # None THEN stop_server_procs(SomeOf(entry), ps) ELSE ps

\* start_server recording the port as soon as it is picked.
spawn_server_port_first(id, plugin) ==
    \E port \in find_available_port, entry_exists \in BOOLEAN,
       spawned \in IF Len(procs) < MaxProcs THEN BOOLEAN ELSE {FALSE} :
        IF port = None
        THEN /\ last' = Step("start", id, Err("No available port"), <<"bind">>)
             /\ UNCHANGED <<plugins, procs>>
        ELSE IF ~entry_exists \/ ~spawned
        THEN /\ last' = Step("start", id,
                             IF ~entry_exists THEN Err("Python entry not found")
                             ELSE Err("Failed to start plugin server"),
                             IF ~entry_exists THEN <<"bind">>
                             ELSE <<"bind", "spawn">>)
             /\ plugins' = [plugins EXCEPT ![id] =
                    Some([plugin EXCEPT !.server_port = port])]
             /\ procs' = procs
        ELSE /\ procs' = Append(procs, Child(SomeOf(port), plugin.dir))
             /\ plugins' = [plugins EXCEPT ![id] =
                    Some([plugin EXCEPT
                            !.server_process = Some(Len(procs) + 1),
                            !.server_port = port])]
             /\ last' = Step("start", id, Ok(SomeOf(port)), <<"bind", "spawn">>)

\* LoadedPlugin::start_server past its checks (loader.rs:55-78): pick a
\* port, look for the entry script, spawn the interpreter.
spawn_server(id, plugin) ==
    \E port \in find_available_port, entry_exists \in BOOLEAN,
       spawned \in IF Len(procs) < MaxProcs THEN BOOLEAN ELSE {FALSE} :
        IF port = None
        THEN /\ last' = Step("start", id, Err("No available port"), <<"bind">>)
             /\ UNCHANGED <<plugins, procs>>
        ELSE IF ~entry_exists
        THEN /\ last' = Step("start", id, Err("Python entry not found"),
                             <<"bind">>)
             /\ UNCHANGED <<plugins, procs>>
        ELSE IF ~spawned
        THEN /\ last' = Step("start", id, Err("Failed to start plugin server"),
                             <<"bind", "spawn">>)
             /\ UNCHANGED <<plugins, procs>>
        ELSE /\ procs' = Append(procs, Child(SomeOf(port), plugin.dir))
             /\ plugins' = [plugins EXCEPT ![id] =
                    Some([plugin EXCEPT
                            !.server_process = Some(Len(procs) + 1),
                            !.server_port = port])]
             /\ last' = Step("start", id, Ok(SomeOf(port)), <<"bind", "spawn">>)

\* start_plugin without the check for a server that already runs.
start_plugin_respawn(id) ==
    /\ loader_alive
    /\ UNCHANGED <<loader_alive, foreign, surfaceVars, bridgeVars, parseVars, wrapperVars, lockVars>>
    /\ IF plugins[id] = None
       THEN /\ last' = Step("start", id, Err("Plugin not found"), <<>>)
            /\ UNCHANGED <<plugins, procs>>
       ELSE LET plugin == SomeOf(plugins[id]) IN
            IF plugin.manifest.type # "WebView"
            THEN /\ last' = Step("start", id, Err("Not a WebView plugin"), <<>>)
                 /\ UNCHANGED <<plugins, procs>>
            ELSE spawn_server(id, plugin)

\* PluginLoader::start_plugin (loader.rs:193-199) over
\* LoadedPlugin::start_server (loader.rs:46-79)
start_plugin(id) ==
    /\ loader_alive
    /\ UNCHANGED <<loader_alive, foreign, surfaceVars, bridgeVars, parseVars, wrapperVars, lockVars>>
    /\ IF plugins[id] = None
       THEN /\ last' = Step("start", id, Err("Plugin not found"), <<>>)
            /\ UNCHANGED <<plugins, procs>>
       ELSE LET plugin == SomeOf(plugins[id]) IN
            IF plugin.manifest.type # "WebView"
            THEN /\ last' = Step("start", id, Err("Not a WebView plugin"), <<>>)
                 /\ UNCHANGED <<plugins, procs>>
            ELSE IF plugin.server_process # None
            THEN /\ last' = Step("start", id,
                                 IF plugin.server_port # None
                                 THEN Ok(SomeOf(plugin.server_port))
                                 ELSE Err("Server running but no port"), <<>>)
                 /\ UNCHANGED <<plugins, procs>>
            ELSE spawn_server(id, plugin)

StartPlugin ==
    /\ \E id \in PluginIds : start_plugin(id)
    /\ UNCHANGED screenVars

\* stop_plugin forgetting a plugin that was not running.
stop_plugin_forget(id) ==
    /\ loader_alive
    /\ UNCHANGED <<loader_alive, foreign, surfaceVars, bridgeVars, parseVars, wrapperVars, lockVars>>
    /\ IF plugins[id] # None /\ is_server_running(SomeOf(plugins[id]))
       THEN /\ plugins' = [plugins EXCEPT ![id] = Some(stop_server(SomeOf(@)))]
            /\ procs' = stop_server_procs(SomeOf(plugins[id]), procs)
            /\ last' = Step("stop", id, Unit, stop_server_sys(SomeOf(plugins[id])))
       ELSE /\ plugins' = [plugins EXCEPT ![id] = None]
            /\ procs' = procs
            /\ last' = Step("stop", id, Unit, <<>>)

\* PluginLoader::stop_plugin (loader.rs:202-206)
stop_plugin(id) ==
    /\ loader_alive
    /\ UNCHANGED <<loader_alive, foreign, surfaceVars, bridgeVars, parseVars, wrapperVars, lockVars>>
    /\ IF plugins[id] # None
       THEN /\ plugins' = [plugins EXCEPT ![id] = Some(stop_server(SomeOf(@)))]
            /\ procs' = stop_server_procs(SomeOf(plugins[id]), procs)
            /\ last' = Step("stop", id, Unit, stop_server_sys(SomeOf(plugins[id])))
       ELSE /\ UNCHANGED <<plugins, procs>>
            /\ last' = Step("stop", id, Unit, <<>>)

StopPlugin ==
    /\ \E id \in PluginIds : stop_plugin(id)
    /\ UNCHANGED screenVars

\* The process table after stop_server has run on every entry of the map.
RECURSIVE StopEach(_, _)
StopEach(ids, ps) ==
    IF ids = {} THEN ps
    ELSE LET id == CHOOSE x \in ids : TRUE IN
         StopEach(ids \ {id}, drop_plugin(plugins[id], ps))

RunningIds == {id \in PluginIds : plugins[id] # None
                                  /\ is_server_running(SomeOf(plugins[id]))}

\* PluginLoader::stop_all (loader.rs:209-213)
stop_all_plugins ==
    [id \in PluginIds |->
        IF plugins[id] # None THEN Some(stop_server(SomeOf(plugins[id])))
        ELSE None]

stop_all_procs == StopEach(PluginIds, procs)

\* The system calls of stop_all: a kill and a wait for each running plugin.
stop_all_sys ==
    [i \in 1..(2 * Cardinality(RunningIds)) |->
        IF i % 2 = 1 THEN "kill" ELSE "wait"]

StopAll ==
    /\ loader_alive
    /\ UNCHANGED <<loader_alive, foreign, surfaceVars, bridgeVars, parseVars, wrapperVars, lockVars, screenVars>>
    /\ plugins' = stop_all_plugins
    /\ procs' = stop_all_procs
    /\ last' = Step("stop_all", "", Unit, stop_all_sys)

\* Drop for PluginLoader (loader.rs:235-239): stop_all, then the map and
\* with it every LoadedPlugin is dropped.
DropLoader ==
    /\ loader_alive
    /\ loader_alive' = FALSE
    /\ UNCHANGED <<foreign, surfaceVars, bridgeVars, parseVars, wrapperVars, lockVars, screenVars>>
    /\ procs' = stop_all_procs
    /\ plugins' = [id \in PluginIds |-> None]
    /\ last' = Step("drop", "", Unit, stop_all_sys)

\* PluginLoader::scan_plugins (loader.rs:137-170), the part of the loop that
\* reads the disk (loader.rs:145-157): the manifests that parse, each with
\* its directory, in the order read_dir yields the entries.
RECURSIVE parsed_entries(_, _)
parsed_entries(order, i) ==
    IF i > Len(order) THEN <<>>
    ELSE LET entry == order[i] IN
         IF ~entry.is_dir \/ entry.manifest = None
         THEN parsed_entries(order, i + 1)
         ELSE LET parsed == from_file(SomeOf(entry.manifest)) IN
              IF parsed.ok
              THEN <<[manifest |-> parsed.value, dir |-> entry.name]>>
                   \o parsed_entries(order, i + 1)
              ELSE parsed_entries(order, i + 1)

\* What one scan of the disk can find.
ScanFinds == {parsed_entries(order, 1) : order \in ScanOrders}

\* scan_plugins keeping the entry an id already has (HashMap::entry with
\* or_insert in place of insert).
RECURSIVE insert_found_keep(_, _, _, _, _)
insert_found_keep(found, i, map, ps, loaded) ==
    IF i > Len(found) THEN [plugins |-> map, procs |-> ps, loaded |-> loaded]
    ELSE LET id == found[i].manifest.id IN
         insert_found_keep(found, i + 1,
                           IF map[id] # None THEN map
                           ELSE [map EXCEPT ![id] =
                                    Some(LoadedPlugin(found[i].manifest, found[i].dir))],
                           ps,
                           Append(loaded, id))

\* scan_plugins, the part that updates the loader (loader.rs:158-161): the
\* map, the process table and the ids loaded once found[i..] are inserted.
\* HashMap::insert hands back the entry it replaces, which is dropped on the
\* spot.
RECURSIVE insert_found(_, _, _, _, _)
insert_found(found, i, map, ps, loaded) ==
    IF i > Len(found) THEN [plugins |-> map, procs |-> ps, loaded |-> loaded]
    ELSE LET id == found[i].manifest.id IN
         insert_found(found, i + 1,
                      [map EXCEPT ![id] =
                          Some(LoadedPlugin(found[i].manifest, found[i].dir))],
                      drop_plugin(map[id], ps),
                      Append(loaded, id))

scan_plugins(found) == insert_found(found, 1, plugins, procs, <<>>)

ScanPlugins ==
    /\ loader_alive
    /\ UNCHANGED <<loader_alive, foreign, surfaceVars, bridgeVars, parseVars, wrapperVars, lockVars, screenVars>>
    /\ \E found \in ScanFinds :
          LET r == scan_plugins(found) IN
          /\ plugins' = r.plugins
          /\ procs' = r.procs
          /\ last' = ScanStep(Ok(r.loaded),
                              IF r.procs # procs THEN <<"kill", "wait">> ELSE <<>>,
                              [i \in 1..Len(found) |-> found[i].dir])

\* The provider process binds the port it was given: it serves if the port
\* is free and exits if some other process holds it.
ProviderBinds ==
    /\ UNCHANGED <<loader_alive, plugins, foreign, surfaceVars, bridgeVars, parseVars, wrapperVars, lockVars, screenVars>>
    /\ \E pid \in 1..Len(procs) :
          /\ procs[pid].state = "running"
          /\ ~procs[pid].bound
          /\ procs' = [procs EXCEPT ![pid] =
                IF procs[pid].port \in BoundPorts
                THEN [@ EXCEPT !.state = "exited"]
                ELSE [@ EXCEPT !.bound = TRUE]]
          /\ last' = Step("provider_binds", "", Unit, <<>>)

\* A provider process exits on its own.
ProviderExits ==
    /\ UNCHANGED <<loader_alive, plugins, foreign, surfaceVars, bridgeVars, parseVars, wrapperVars, lockVars, screenVars>>
    /\ \E pid \in 1..Len(procs) :
          /\ procs[pid].state = "running"
          /\ procs' = [procs EXCEPT ![pid] =
                            [@ EXCEPT !.state = "exited", !.bound = FALSE]]
          /\ last' = Step("provider_exits", "", Unit, <<>>)

\* Another process of the machine binds a free port, or releases one.
ForeignPort ==
    /\ UNCHANGED <<loader_alive, plugins, procs, surfaceVars, bridgeVars, parseVars, wrapperVars, lockVars, screenVars>>
    /\ \E p \in Ports :
          /\ foreign' = IF p \in foreign THEN foreign \ {p}
                        ELSE IF p \in BoundPorts THEN foreign
                        ELSE foreign \cup {p}
          /\ foreign' # foreign
          /\ last' = Step("foreign_port", "", Unit, <<>>)

\* PluginLoader::new (loader.rs:116-129)
LoaderInit ==
    /\ loader_alive = TRUE
    /\ plugins = [id \in PluginIds |-> None]
    /\ procs = <<>>
    /\ foreign = {}
    /\ last = Step("new", "", Unit, <<>>)

\* ------------------------------------------------------------------------
\* ManagedWebView used on its own (wry_wrapper.rs:119-298): the wrapper before
\* and after its initialization, and the platform view it comes to hold.
\* ------------------------------------------------------------------------
\* The most platform views built for one wrapper.
MaxBuilt == 2

\* ManagedWebView::new (wry_wrapper.rs:128-135)
new(config) == [webview |-> None, config |-> config, visible |-> TRUE]

\* WebViewConfig::default (wry_wrapper.rs:29-39), the fields the model holds
DefaultConfig == [url |-> "about:blank", bounds |-> WebViewBounds(0, 0, 0, 0)]

\* The platform view the builder makes from a config (wry_wrapper.rs:153-168)
PlatformView(config) == [bounds |-> config.bounds, url |-> config.url, visible |-> TRUE]

\* A method call on the wrapper: the method, what it returned, and the
\* platform calls it made.
ManagedStep(op, r, cs) == [op |-> op, ret |-> r, calls |-> cs]

\* The host and the callers of a wrapper: what get_native_handle and the
\* builder can give, whether the platform accepts a call, and the arguments.
WrapperEnv ==
    [results |-> {"Ok", "NoWindow", "WryError"},
     platformOk |-> {TRUE, FALSE},
     bounds |-> {WebViewBounds(0, 0, 800, 600), WebViewBounds(10, 20, 300, 200)},
     urls |-> {"http://127.0.0.1:49152"},
     scripts |-> {"location.reload()"},
     channels |-> {"demo"},
     data |-> {"42"}]

\* initialize without the test of wry_wrapper.rs:141: a view is built
\* whether or not one is held.
managed_initialize_again(r) ==
    /\ built' = IF r = "Ok" THEN built + 1 ELSE built
    /\ managed' = IF r = "Ok"
                  THEN [managed EXCEPT !.webview = Some(PlatformView(managed.config))]
                  ELSE managed
    /\ managed_last' =
           ManagedStep("initialize",
                       IF r = "Ok" THEN Unit ELSE Err(r),
                       IF r = "NoWindow"
                       THEN <<Call("get_native_handle", "", FALSE)>>
                       ELSE <<Call("get_native_handle", "", TRUE),
                              Call("build_as_child", managed.config, r = "Ok")>>)

\* ManagedWebView::initialize (wry_wrapper.rs:140-172), where r is what the
\* host gives: a view, no native handle, or an error of the builder.
managed_initialize(r) ==
    IF managed.webview # None
    THEN /\ managed_last' = ManagedStep("initialize", Err("AlreadyInitialized"), <<>>)
         /\ UNCHANGED <<managed, built>>
    ELSE /\ built' = IF r = "Ok" THEN built + 1 ELSE built
         /\ managed' = IF r = "Ok"
                       THEN [managed EXCEPT !.webview = Some(PlatformView(managed.config))]
                       ELSE managed
         /\ managed_last' =
                ManagedStep("initialize",
                            IF r = "Ok" THEN Unit ELSE Err(r),
                            IF r = "NoWindow"
                            THEN <<Call("get_native_handle", "", FALSE)>>
                            ELSE <<Call("get_native_handle", "", TRUE),
                                   Call("build_as_child", managed.config, r = "Ok")>>)

ManagedInitialize ==
    /\ built < MaxBuilt
    /\ \E r \in WrapperEnv.results : managed_initialize(r)
    /\ UNCHANGED <<surfaceVars, loaderVars, bridgeVars, parseVars, lockVars, screenVars>>

\* ManagedWebView::set_bounds (wry_wrapper.rs:180-186) on the wrapper
managed_set_bounds(b, ok) ==
    /\ built' = built
    /\ IF managed.webview # None
       THEN /\ managed_last' = ManagedStep("set_bounds",
                                           IF ok THEN Unit ELSE Err("WryError"),
                                           <<Call("set_bounds", b, ok)>>)
            /\ managed' = IF ok
                          THEN [managed EXCEPT !.webview = Some(set_bounds(SomeOf(@), b, ok)),
                                               !.config.bounds = b]
                          ELSE managed
       ELSE /\ managed_last' = ManagedStep("set_bounds", Unit, <<>>)
            /\ managed' = managed

ManagedSetBounds ==
    /\ \E b \in WrapperEnv.bounds, ok \in WrapperEnv.platformOk : managed_set_bounds(b, ok)
    /\ UNCHANGED <<surfaceVars, loaderVars, bridgeVars, parseVars, lockVars, screenVars>>

\* ManagedWebView::set_visible (wry_wrapper.rs:231-237) on the wrapper
managed_set_visible(visible, ok) ==
    /\ built' = built
    /\ IF managed.webview # None
       THEN /\ managed_last' = ManagedStep("set_visible",
                                           IF ok THEN Unit ELSE Err("WryError"),
                                           <<Call("set_visible", visible, ok)>>)
            /\ managed' = IF ok
                          THEN [managed EXCEPT !.webview = Some(set_visible(SomeOf(@), visible, ok)),
                                               !.visible = visible]
                          ELSE managed
       ELSE /\ managed_last' = ManagedStep("set_visible", Unit, <<>>)
            /\ managed' = managed

ManagedSetVisible ==
    /\ \E visible \in BOOLEAN, ok \in WrapperEnv.platformOk : managed_set_visible(visible, ok)
    /\ UNCHANGED <<surfaceVars, loaderVars, bridgeVars, parseVars, lockVars, screenVars>>

\* ManagedWebView::load_url (wry_wrapper.rs:194-201) on the wrapper
managed_load_url(u, ok) ==
    /\ built' = built
    /\ IF managed.webview # None
       THEN /\ managed_last' = ManagedStep("load_url",
                                           IF ok THEN Unit ELSE Err("WryError"),
                                           <<Call("load_url", u, ok)>>)
            /\ managed' = [managed EXCEPT !.webview = Some(load_url_view(SomeOf(@), u, ok))]
       ELSE /\ managed_last' = ManagedStep("load_url", Err("NotInitialized"), <<>>)
            /\ managed' = managed

ManagedLoadUrl ==
    /\ \E u \in WrapperEnv.urls, ok \in WrapperEnv.platformOk : managed_load_url(u, ok)
    /\ UNCHANGED <<surfaceVars, loaderVars, bridgeVars, parseVars, lockVars, screenVars>>

\* ManagedWebView::eval (wry_wrapper.rs:204-211) on the wrapper, called as
\* the method `op`
managed_eval(op, js, ok) ==
    /\ built' = built
    /\ managed' = managed
    /\ IF managed.webview # None
       THEN managed_last' = ManagedStep(op, IF ok THEN Unit ELSE Err("WryError"),
                                        <<Call("evaluate_script", js, ok)>>)
       ELSE managed_last' = ManagedStep(op, Err("NotInitialized"), <<>>)

ManagedEval ==
    /\ \E js \in WrapperEnv.scripts, ok \in WrapperEnv.platformOk : managed_eval("eval", js, ok)
    /\ UNCHANGED <<surfaceVars, loaderVars, bridgeVars, parseVars, lockVars, screenVars>>

\* ManagedWebView::send_to_js (wry_wrapper.rs:250-261) on the wrapper
ManagedSendToJs ==
    /\ \E c \in WrapperEnv.channels, d \in WrapperEnv.data, ok \in WrapperEnv.platformOk :
           managed_eval("send_to_js", receive_script(c, d), ok)
    /\ UNCHANGED <<surfaceVars, loaderVars, bridgeVars, parseVars, lockVars, screenVars>>

WrapperInit ==
    /\ managed = new(DefaultConfig)
    /\ built = 0
    /\ managed_last = ManagedStep("new", Unit, <<>>)

\* ------------------------------------------------------------------------
\* The mutex around the bridge: every user of the IpcHandler goes through
\* Arc<Mutex<IpcHandler>> (wry_wrapper.rs:122, 245-247; mod.rs:245-248), a
\* parking_lot mutex (wry_wrapper.rs:7). The ipc closure is followed
\* statement by statement.
\* ------------------------------------------------------------------------
\* The most messages the page posts and the most callbacks registered.
MaxLockMessages == 2

MaxLockCallbacks == 2

LockEnv ==
    [messages |-> {IpcMessage("demo", "42"), IpcMessage("default", "not json")},
     maxMessages |-> MaxLockMessages,
     maxCallbacks |-> MaxLockCallbacks]

\* The positions of the ipc closure (wry_wrapper.rs:158-161): not running;
\* inside handle_message, about to call callback number `next` of the
\* message's channel or, after the last one, to push the message; inside a
\* callback that waits for the mutex.
Idle == [pc |-> "idle"]

Dispatching(message, next) ==
    [pc |-> "dispatch", message |-> message, next |-> next]

\* A mutex that lets the thread holding it lock it again.
lock_blocks_reentrant(thread) == ipc_lock # None /\ ipc_lock # Some(thread)

\* parking_lot::Mutex::lock (wry_wrapper.rs:7, 159): the caller waits while
\* the mutex is held, whoever holds it.
lock_blocks(thread) == ipc_lock # None

\* The host registers a callback: ipc_handler().lock().on(channel, cb)
\* (mod.rs:245-248, ipc.rs:265-273). The callback either only looks at its
\* message or locks the bridge itself.
LockedOn(env) ==
    /\ ~lock_blocks("host")
    /\ \E channel \in Channels, locks \in BOOLEAN :
          /\ on(env, channel)
          /\ relocking' = IF locks
                          THEN relocking \cup {Cardinality(Registered) + 1}
                          ELSE relocking
    /\ UNCHANGED <<ipc_lock, closure>>
    /\ UNCHANGED screenVars

\* The host drains the bridge: ipc_handler().lock().poll_messages()
\* (mod.rs:293-295).
LockedPoll ==
    /\ ~lock_blocks("host")
    /\ poll_messages

\* The page posts a message and the closure takes the mutex
\* (wry_wrapper.rs:158-159).
IpcEnter(env) ==
    /\ closure = Idle
    /\ Len(arrived) < env.maxMessages
    /\ ~lock_blocks("ipc_handler")
    /\ ipc_lock' = Some("ipc_handler")
    /\ \E message \in env.messages :
          /\ closure' = Dispatching(message, 1)
          /\ arrived' = Append(arrived, message)
    /\ bridge_last' = BridgeStep("lock", <<>>, <<>>)
    /\ UNCHANGED <<callbacks, pending_messages, polled, relocking>>
    /\ UNCHANGED <<surfaceVars, loaderVars, parseVars, wrapperVars, screenVars>>

\* One turn of the loop of handle_message (ipc.rs:278-282): the next
\* callback of the channel is called with the message. A callback that
\* locks the bridge waits for the mutex; were it to get it, it would poll.
IpcCallback ==
    /\ closure.pc = "dispatch"
    /\ closure.next <= Len(callbacks[closure.message.channel])
    /\ LET cb == callbacks[closure.message.channel][closure.next] IN
       /\ bridge_last' = BridgeStep("callback", <<>>,
                                    <<Invocation(cb, closure.message)>>)
       /\ IF cb \in relocking
          THEN IF lock_blocks("ipc_handler")
               THEN /\ closure' = [closure EXCEPT !.pc = "blocked"]
                    /\ UNCHANGED <<pending_messages, polled>>
               ELSE /\ closure' = [closure EXCEPT !.next = @ + 1]
                    /\ pending_messages' = <<>>
                    /\ polled' = polled \o pending_messages
          ELSE /\ closure' = [closure EXCEPT !.next = @ + 1]
               /\ UNCHANGED <<pending_messages, polled>>
    /\ UNCHANGED <<callbacks, arrived, ipc_lock, relocking>>
    /\ UNCHANGED <<surfaceVars, loaderVars, parseVars, wrapperVars, screenVars>>

\* After the last callback handle_message pushes the message (ipc.rs:284-285)
\* and the closure returns, which drops the guard (wry_wrapper.rs:161).
IpcLeave ==
    /\ closure.pc = "dispatch"
    /\ closure.next > Len(callbacks[closure.message.channel])
    /\ pending_messages' = Append(pending_messages, closure.message)
    /\ ipc_lock' = None
    /\ closure' = Idle
    /\ bridge_last' = BridgeStep("handle_message", <<>>, dispatch(closure.message))
    /\ UNCHANGED <<callbacks, arrived, polled, relocking>>
    /\ UNCHANGED <<surfaceVars, loaderVars, parseVars, wrapperVars, screenVars>>

\* ManagedWebView::new (wry_wrapper.rs:128-135): a fresh mutex, not held.
LockInit ==
    /\ ipc_lock = None
    /\ closure = Idle
    /\ relocking = {}

\* ------------------------------------------------------------------------
\* PluginScreen (screen.rs:220-429): one surface and the plugin whose URL it
\* shows.
\* ------------------------------------------------------------------------
\* Frames enough for the first attempt of the surface and a tick after it.
MaxScreenFrame == 11

ScreenEnv ==
    [maxFrame |-> MaxScreenFrame,
     rects |-> {RectA},
     results |-> {"Ok", "WryError"},
     platformOk |-> {TRUE},
     urls |-> {},
     observe |-> TRUE]

\* A URL load the screen issued: the URL, whether the surface held a view,
\* and the number of the successful start it came after.
Load(u, initialized, start) ==
    [url |-> u, initialized |-> initialized, start |-> start]

\* PluginScreen::is_server_running (screen.rs:371-381)
screen_is_server_running ==
    /\ plugin_id # None
    /\ plugins[SomeOf(plugin_id)] # None
    /\ is_server_running(SomeOf(plugins[SomeOf(plugin_id)]))

\* The URL load_url asks the loader for (screen.rs:387-391)
screen_url ==
    IF plugin_id # None /\ plugins[SomeOf(plugin_id)] # None
    THEN get_url(SomeOf(plugins[SomeOf(plugin_id)]))
    ELSE None

\* PluginScreen::load_url (screen.rs:383-402): with a URL in hand the screen
\* calls load_url of the surface, whatever the state of the surface.
screen_load_url(env) ==
    IF screen_url # None
    THEN /\ url_loaded' = TRUE
         /\ load_url(env, SomeOf(screen_url))
         /\ loads' = Append(loads, Load(SomeOf(screen_url), webview # None, starts))
    ELSE /\ UNCHANGED <<url_loaded, loads>>
         /\ UNCHANGED surfaceVars

\* PluginScreen::bind_plugin (screen.rs:314-325)
bind_plugin(id) ==
    /\ plugin_id = None
    /\ plugin_id' = Some(id)
    /\ UNCHANGED <<url_loaded, load_url_timer, pending_url_load, actions_seen,
                   starts, loads>>
    /\ UNCHANGED <<surfaceVars, loaderVars, bridgeVars, parseVars, wrapperVars,
                   lockVars>>

BindPlugin == bind_plugin("demo")

\* PluginScreen::toggle_server (screen.rs:327-369), called when the start
\* button is clicked (screen.rs:264-266)
toggle_server ==
    /\ UNCHANGED <<plugin_id, actions_seen, loads>>
    /\ IF plugin_id = None
       THEN /\ UNCHANGED <<url_loaded, load_url_timer, pending_url_load, starts>>
            /\ UNCHANGED <<surfaceVars, loaderVars, bridgeVars, parseVars,
                           wrapperVars, lockVars>>
       ELSE IF screen_is_server_running
       THEN /\ stop_plugin(SomeOf(plugin_id))
            /\ url_loaded' = FALSE
            /\ UNCHANGED <<load_url_timer, pending_url_load, starts>>
       ELSE /\ start_plugin(SomeOf(plugin_id))
            /\ pending_url_load' = (last'.ret.ok \/ pending_url_load)
            /\ load_url_timer' = (last'.ret.ok \/ load_url_timer)
            /\ starts' = IF last'.ret.ok THEN starts + 1 ELSE starts
            /\ UNCHANGED url_loaded

\* The most starts of the screen that succeed.
MaxStarts == 2

\* A click on the start button (screen.rs:264-266).
ToggleServer ==
    /\ screen_is_server_running \/ starts < MaxStarts
    /\ toggle_server

\* The timer event without the load.
timer_event_no_load(env) ==
    /\ load_url_timer
    /\ load_url_timer' = FALSE
    /\ pending_url_load' = FALSE
    /\ UNCHANGED <<plugin_id, actions_seen, starts, url_loaded, loads>>
    /\ UNCHANGED <<surfaceVars, loaderVars, bridgeVars, parseVars, wrapperVars,
                   lockVars>>

\* PluginScreen::handle_event, the timeout of load_url_timer (screen.rs:250-256)
timer_event(env) ==
    /\ load_url_timer
    /\ load_url_timer' = FALSE
    /\ UNCHANGED <<plugin_id, actions_seen, starts>>
    /\ UNCHANGED <<loaderVars, bridgeVars, parseVars, wrapperVars, lockVars>>
    /\ IF pending_url_load
       THEN /\ pending_url_load' = FALSE
            /\ screen_load_url(env)
       ELSE /\ UNCHANGED <<pending_url_load, url_loaded, loads>>
            /\ UNCHANGED surfaceVars

\* PluginScreen::handle_event, the widget actions of the surface
\* (screen.rs:283-304), one notification at a time in the order emitted.
handle_actions(env) ==
    /\ actions_seen < Len(emitted)
    /\ actions_seen' = actions_seen + 1
    /\ UNCHANGED <<plugin_id, load_url_timer, pending_url_load, starts>>
    /\ UNCHANGED <<loaderVars, bridgeVars, parseVars, wrapperVars, lockVars>>
    /\ IF emitted[actions_seen + 1].kind = "Initialized" /\ screen_is_server_running
       THEN screen_load_url(env)
       ELSE /\ UNCHANGED <<url_loaded, loads>>
            /\ UNCHANGED surfaceVars

\* A PluginScreen as the live design creates it: bound to nothing, no timer.
ScreenInit ==
    /\ plugin_id = None
    /\ url_loaded = FALSE
    /\ load_url_timer = FALSE
    /\ pending_url_load = FALSE
    /\ actions_seen = 0
    /\ starts = 0
    /\ loads = <<>>

Init ==
    /\ SurfaceInit
    /\ LoaderInit
    /\ BridgeInit
    /\ ParseIdle
    /\ WrapperInit
    /\ LockInit
    /\ ScreenInit

\* ------------------------------------------------------------------------
\* Lifecycle specification: one surface whose attempts all fail, over its
\* whole retry schedule.
\* ------------------------------------------------------------------------
LifeNext ==
    \/ NextFrame(LifeEnv)
    \/ SetActive(LifeEnv)
    \/ DrawWalk(LifeEnv)
    \/ WindowGeomChange(LifeEnv)

LifeSpec == Init /\ [][LifeNext]_vars

\* ------------------------------------------------------------------------
\* Surface specification: one surface over its first attempts, with the
\* rects, URLs, failures and platform refusals a host can produce.
\* ------------------------------------------------------------------------
SurfaceNext ==
    \/ NextFrame(SurfaceEnv)
    \/ SetActive(SurfaceEnv)
    \/ DrawWalk(SurfaceEnv)
    \/ WindowGeomChange(SurfaceEnv)
    \/ LoadUrl(SurfaceEnv)

SurfaceSpec == Init /\ [][SurfaceNext]_vars

\* The host keeps delivering frame ticks to the surface.
SurfaceFairSpec == SurfaceSpec /\ WF_vars(NextFrame(SurfaceEnv))

\* ------------------------------------------------------------------------
\* Supervisor specification: the loader, its child processes and the ports.
\* ------------------------------------------------------------------------
LoaderNext ==
    \/ ScanPlugins
    \/ StartPlugin
    \/ StopPlugin
    \/ StopAll
    \/ DropLoader
    \/ ProviderBinds
    \/ ProviderExits
    \/ ForeignPort

LoaderSpec == Init /\ [][LoaderNext]_vars

\* ------------------------------------------------------------------------
\* View specification: one surface whose attempts can succeed, and the
\* bridge of the view it comes to hold.
\* ------------------------------------------------------------------------
\* ViewEnv is a host on which an attempt can succeed, with a page that posts
\* messages to the bridge of the view once it is held.
ViewEnv ==
    [maxFrame |-> MaxViewFrame,
     rects |-> {RectA, RectD},
     results |-> {"Ok", "WryError"},
     platformOk |-> {TRUE, FALSE},
     urls |-> {},
     observe |-> TRUE,
     messages |-> {IpcMessage("demo", "42")},
     maxMessages |-> MaxViewMessages,
     maxCallbacks |-> 0]

ViewNext ==
    \/ NextFrame(ViewEnv)
    \/ SetActive(ViewEnv)
    \/ DrawWalk(ViewEnv)
    \/ WindowGeomChange(ViewEnv)
    \/ IpcClosure(ViewEnv)

ViewSpec == Init /\ [][ViewNext]_vars

\* ------------------------------------------------------------------------
\* Drain specification: one surface through its first attempt, the host
\* events it handles and the messages the page sends, of two kinds.
\* ------------------------------------------------------------------------
\* Frames enough for the first attempt and a few ticks after it.
MaxDrainFrame == 13

\* The most messages the page sends.
MaxDrainMessages == 3

DrainEnv ==
    [maxFrame |-> MaxDrainFrame,
     rects |-> {RectA},
     results |-> {"Ok", "WryError"},
     platformOk |-> {TRUE, FALSE},
     urls |-> {},
     observe |-> TRUE,
     messages |-> {IpcMessage("demo", "42"), IpcMessage("default", "\"hi\"")},
     maxMessages |-> MaxDrainMessages,
     maxCallbacks |-> 0]

DrainNext ==
    \/ NextFrame(DrainEnv)
    \/ SetActive(DrainEnv)
    \/ WindowGeomChange(DrainEnv)
    \/ IpcClosure(DrainEnv)

DrainSpec == Init /\ [][DrainNext]_vars

\* The same with the frame ticks the host delivers.
DrainFairSpec == DrainSpec /\ WF_vars(NextFrame(DrainEnv))

\* ------------------------------------------------------------------------
\* Screen specification: a PluginScreen, its surface through the first
\* attempt, and the loader it shares. The timeout the screen started fires
\* and the widget actions of the surface are delivered.
\* ------------------------------------------------------------------------
\* The loader after PluginLoader::new and one scan_plugins of the disk
\* (loader.rs:116-170), before any plugin is started.
LoaderScanned ==
    /\ loader_alive = TRUE
    /\ procs = <<>>
    /\ foreign = {}
    /\ \E found \in ScanFinds :
          /\ plugins = insert_found(found, 1, [id \in PluginIds |-> None],
                                    <<>>, <<>>).plugins
          /\ last = ScanStep(Ok([i \in 1..Len(found) |-> found[i].manifest.id]),
                             <<>>, [i \in 1..Len(found) |-> found[i].dir])

ScreenStart ==
    /\ SurfaceInit
    /\ LoaderScanned
    /\ BridgeInit
    /\ ParseIdle
    /\ WrapperInit
    /\ LockInit
    /\ ScreenInit

ScreenNext ==
    \/ BindPlugin
    \/ ToggleServer
    \/ timer_event(ScreenEnv)
    \/ handle_actions(ScreenEnv)
    \/ NextFrame(ScreenEnv)
    \/ SetActive(ScreenEnv)

ScreenSpec ==
    /\ ScreenStart
    /\ [][ScreenNext]_vars
    /\ WF_vars(timer_event(ScreenEnv))
    /\ WF_vars(handle_actions(ScreenEnv))

\* ------------------------------------------------------------------------
\* Lock specification: the bridge behind its mutex, the ipc closure step by
\* step, and the host that registers callbacks and drains the queue.
\* ------------------------------------------------------------------------
LockNext ==
    \/ LockedOn(LockEnv)
    \/ LockedPoll
    \/ IpcEnter(LockEnv)
    \/ IpcCallback
    \/ IpcLeave

LockSpec == Init /\ [][LockNext]_vars

\* ------------------------------------------------------------------------
\* Bridge specification: an IpcHandler with its callers.
\* ------------------------------------------------------------------------
BridgeNext ==
    \/ On(BridgeEnv)
    \/ HandleMessage(BridgeEnv)
    \/ poll_messages

BridgeSpec == Init /\ [][BridgeNext]_vars

\* ------------------------------------------------------------------------
\* Caller specification: one surface whose attempts all fail, its frame ticks
\* and the callers of its methods, over all its attempts.
\* ------------------------------------------------------------------------
CallEnv ==
    [maxFrame |-> MaxFrame,
     rects |-> {RectA},
     results |-> {"UnsupportedPlatform"},
     platformOk |-> {TRUE},
     urls |-> {"http://127.0.0.1:49152"},
     scripts |-> {"location.reload()"},
     channels |-> {"demo"},
     data |-> {"42"},
     observe |-> TRUE]

CallNext ==
    \/ NextFrame(CallEnv)
    \/ SetActive(CallEnv)
    \/ LoadUrl(CallEnv)
    \/ Eval(CallEnv)
    \/ SendToJs(CallEnv)

CallSpec == Init /\ [][CallNext]_vars

\* ------------------------------------------------------------------------
\* Wrapper specification: a ManagedWebView and its callers.
\* ------------------------------------------------------------------------
WrapperNext ==
    \/ ManagedInitialize
    \/ ManagedSetBounds
    \/ ManagedSetVisible
    \/ ManagedLoadUrl
    \/ ManagedEval
    \/ ManagedSendToJs

WrapperSpec == Init /\ [][WrapperNext]_vars

\* ------------------------------------------------------------------------
\* Parser specification: the parser, the serializer and from_js applied to
\* the values and texts above.
\* ------------------------------------------------------------------------
ParseNext ==
    \/ to_string
    \/ Parse
    \/ FromJs

\* Everything else as constructed, and a value or a text in hand.
ParseStart ==
    /\ SurfaceInit
    /\ LoaderInit
    /\ BridgeInit
    /\ WrapperInit
    /\ LockInit
    /\ ScreenInit
    /\ ParseInit

ParseSpec == ParseStart /\ [][ParseNext]_vars

\* ------------------------------------------------------------------------
\* Properties
\* ------------------------------------------------------------------------
\* The handler that ran made a native initialization call
\* (ManagedWebView::initialize).
NativeInit(cs) == \E i \in 1..Len(cs) : cs[i].op = "initialize"

\* The set_bounds calls the handler that ran made on the platform view.
SetBoundsCalls(cs) == {cs[i] : i \in {j \in 1..Len(cs) : cs[j].op = "set_bounds"}}

\* How many notifications of a kind the surface has emitted.
CountKind(kind) == Len(SelectSeq(emitted, LAMBDA a : a.kind = kind))

\* No view is held and every attempt has been used.
Exhausted == webview = None /\ init_attempts = MAX_INIT_ATTEMPTS

\* C1: init_attempts never exceeds MAX_INIT_ATTEMPTS, one native
\* initialization call has been made per attempt counted, and from a state
\* where the attempts are used up with no view held no step makes a native
\* initialization call or counts another attempt.
C1_AttemptsBounded ==
    /\ [](init_attempts <= MAX_INIT_ATTEMPTS)
    /\ [](CountKind("Initialized") + CountKind("InitFailed") = init_attempts)
    /\ [][Exhausted => (~NativeInit(calls') /\ Exhausted')]_vars

\* An exhausted, active surface that has received ticks up to the frame at
\* which a retry would have been due.
C1_Witness ==
    /\ Exhausted
    /\ active
    /\ frame_count >= last_init_frame + RETRY_INTERVAL

\* C2: a start for a plugin that already holds a process returns the port
\* recorded for it, makes no system call (no bind, no spawn) and leaves the
\* process table and the plugin map as they were; so a start right after a
\* successful start of the same id returns the same port.
C2_StartIdempotent ==
    [][\A id \in PluginIds :
        (/\ last'.op = "start"
         /\ last'.id = id
         /\ plugins[id] # None
         /\ is_server_running(SomeOf(plugins[id])))
        => (/\ last'.ret = Ok(SomeOf(SomeOf(plugins[id]).server_port))
            /\ last'.sys = <<>>
            /\ procs' = procs
            /\ plugins' = plugins
            /\ (last.op = "start" /\ last.id = id /\ last.ret.ok
                    => last'.ret = last.ret))]_vars

\* A start that returned a port without binding or spawning: the repeated
\* start of a running plugin.
C2_Witness ==
    /\ last.op = "start"
    /\ last.ret.ok
    /\ last.sys = <<>>
    /\ Len(procs) = 1

\* The child processes no entry of the plugin map owns.
Unowned ==
    {pid \in 1..Len(procs) :
        \A id \in PluginIds :
            plugins[id] = None
            \/ SomeOf(plugins[id]).server_process # Some(pid)}

\* C3: every child process that no LoadedPlugin of the map owns has been
\* killed and reaped; once the PluginLoader is dropped that is every process
\* it ever spawned.
C3_NoOrphans ==
    /\ \A pid \in Unowned : procs[pid].state = "reaped"
    /\ ~loader_alive => \A pid \in 1..Len(procs) : procs[pid].state = "reaped"

\* The loader was dropped while two plugins were running.
C3_Witness ==
    /\ ~loader_alive
    /\ last.op = "drop"
    /\ Len(last.sys) = 4
    /\ Len(procs) >= 2

\* The error descriptions ManagedWebView::initialize can fail with.
InitErrorTexts ==
    {ErrorText(e) : e \in {"NoWindow", "NotOnMainThread", "UnsupportedPlatform",
                           "WryError"}}

C6_UrlChangedEmitted ==
    \A u \in SurfaceEnv.urls :
        (handler = "load_url" /\ ret = Unit /\ calls = <<Call("load_url", u, TRUE)>>)
            ~> (\E i \in 1..Len(emitted) : emitted[i] = UrlChanged(u))

\* C7: a set_active call that changes the active flag leaves init_attempts
\* and last_init_frame as they were, and no step from an exhausted surface
\* (a toggle, a tick, a layout pass, a geometry event) makes a native
\* initialization call or ends the exhaustion.
C7_ToggleKeepsAttempts ==
    [][/\ active' # active =>
            /\ init_attempts' = init_attempts
            /\ last_init_frame' = last_init_frame
            /\ ~NativeInit(calls')
       /\ Exhausted => (Exhausted' /\ ~NativeInit(calls'))]_vars

\* An exhausted surface that was set inactive and has received ticks up to
\* a frame past the one at which a retry would have been due.
C7_Witness ==
    /\ Exhausted
    /\ ~active
    /\ frame_count > last_init_frame + RETRY_INTERVAL

\* C8: a step that makes a native initialization call, or changes
\* init_attempts, is taken with the active flag true (before and after it).
C8_AttemptOnlyWhenActive ==
    [][(NativeInit(calls') \/ init_attempts' # init_attempts)
            => (active /\ active')]_vars

\* A tick past the initial delay was delivered to an inactive surface, which
\* has made no attempt.
C8_Witness ==
    /\ handler = "NextFrame"
    /\ ~active
    /\ frame_count > INITIAL_DELAY
    /\ init_attempts = 0

\* C9: every attempt increments init_attempts by exactly one (and only an
\* attempt changes it) and records its frame in last_init_frame; an attempt
\* that follows a failed one is made at a frame no earlier than the failed
\* attempt's frame plus RETRY_INTERVAL.
C9_RetryInterval ==
    [][/\ init_attempts' # init_attempts => NativeInit(calls')
       /\ NativeInit(calls') =>
            /\ init_attempts' = init_attempts + 1
            /\ last_init_frame' = frame_count'
            /\ init_attempts > 0
                    => frame_count' >= last_init_frame + RETRY_INTERVAL
       /\ ~NativeInit(calls') => last_init_frame' = last_init_frame]_vars

\* A second attempt has just been made.
C9_Witness ==
    /\ handler = "NextFrame"
    /\ NativeInit(calls)
    /\ init_attempts = 2

\* C10: a frame tick adds one to frame_count whether or not the surface is
\* active; no attempt is made on a tick that leaves frame_count below
\* INITIAL_DELAY; and a tick that finds the surface active with no attempt
\* made yet and brings frame_count to INITIAL_DELAY or more makes the first
\* attempt.
C10_InitialDelay ==
    [][/\ handler' = "NextFrame" => frame_count' = frame_count + 1
       /\ NativeInit(calls') => frame_count' >= INITIAL_DELAY
       /\ (/\ handler' = "NextFrame"
           /\ active
           /\ init_attempts = 0
           /\ frame_count' >= INITIAL_DELAY)
            => (NativeInit(calls') /\ init_attempts' = 1)]_vars

\* The first attempt was made later than the initial delay, on a surface
\* activated after ticks had already been counted.
C10_Witness ==
    /\ handler = "NextFrame"
    /\ NativeInit(calls)
    /\ init_attempts = 1
    /\ last_init_frame > INITIAL_DELAY

ShowOrMoveCalls(cs) ==
    {cs[i] : i \in {j \in 1..Len(cs) :
                        \/ cs[j].op = "set_bounds"
                        \/ cs[j].op = "set_visible" /\ cs[j].arg = TRUE}}

\* C12: the set_active(false) call that deactivates a surface with a view
\* makes, within the call, the one platform call set_visible(false), after
\* which the view is hidden (the platform accepting the call); and every step
\* taken with the surface inactive that leaves it inactive (a tick, a layout
\* pass, a geometry event, a message from the page) makes no platform call
\* and leaves the view, its visibility and its bounds as they were.
C12_HiddenWhileInactive ==
    [][/\ (handler' = "set_active" /\ active /\ ~active' /\ webview # None) =>
            \E ok \in BOOLEAN :
                /\ calls' = <<Call("set_visible", FALSE, ok)>>
                /\ webview' = Some(set_visible(SomeOf(webview), FALSE, ok))
                /\ ok => ~SomeOf(webview').visible
       /\ (~active /\ ~active') =>
            /\ calls' = <<>>
            /\ webview' = webview
            /\ init_attempts' = init_attempts
       /\ ShowOrMoveCalls(calls') # {} => active']_vars

\* A hidden view on an inactive surface whose rect changed since the bounds
\* were last synced, right after a geometry event that forwarded nothing.
C12_Witness ==
    /\ handler = "WindowGeomChange"
    /\ ~active
    /\ webview # None
    /\ ~SomeOf(webview).visible
    /\ cached_rect # None
    /\ BoundsOfRect(SomeOf(cached_rect)) # SomeOf(webview).bounds
    /\ calls = <<>>

\* The errors start returns for a plugin that is not running.
StartErrors ==
    {Err("Plugin not found"), Err("Not a WebView plugin"),
     Err("No available port"), Err("Python entry not found"),
     Err("Failed to start plugin server")}

\* C13: a start that fails returns an error value and leaves the plugin map
\* and the process table as they were; the plugin it named, if there is one,
\* holds no process handle, no port and no URL afterwards; and a start of a
\* WebView plugin that is not running is never refused without trying: it
\* goes as far as picking a port, whatever failed before.
C13_FailedStartLeavesStopped ==
    [][\A id \in PluginIds :
        (last'.op = "start" /\ last'.id = id) =>
            /\ ~last'.ret.ok =>
                    /\ last'.ret \in StartErrors
                    /\ plugins' = plugins
                    /\ procs' = procs
                    /\ plugins'[id] # None =>
                            /\ SomeOf(plugins'[id]).server_process = None
                            /\ SomeOf(plugins'[id]).server_port = None
                            /\ get_url(SomeOf(plugins'[id])) = None
            /\ (/\ plugins[id] # None
                /\ SomeOf(plugins[id]).manifest.type = "WebView"
                /\ ~is_server_running(SomeOf(plugins[id])))
                    => /\ Len(last'.sys) >= 1
                       /\ last'.sys[1] = "bind"]_vars

\* The spawn of a provider has just failed for a plugin of the map, while
\* another provider was running.
C13_Witness ==
    /\ last.op = "start"
    /\ last.ret = Err("Failed to start plugin server")
    /\ plugins[last.id] # None
    /\ ~is_server_running(SomeOf(plugins[last.id]))
    /\ RunningIds # {}

\* C14, as claimed: a provider that fails to bind the port chosen for it
\* belongs to a start that returned an error. Every process of the table was
\* spawned by a start that returned its port (spawn_server), so the claim is
\* that no process of the table fails to bind, or at least that none does
\* while a plugin holds it as its running server with that port recorded.
C14_BindFailureSurfaced ==
    [][\A pid \in 1..Len(procs) :
        (/\ last'.op = "provider_binds"
         /\ procs[pid].state = "running"
         /\ procs'[pid].state = "exited")
        => \A id \in PluginIds :
                plugins'[id] # None =>
                    ~(/\ SomeOf(plugins'[id]).server_process = Some(pid)
                      /\ SomeOf(plugins'[id]).server_port = Some(procs[pid].port)
                      /\ get_url(SomeOf(plugins'[id])) # None)]_vars

\* C15: a stop of a plugin that holds a process makes the system calls kill
\* and wait on that process, in that order, and nothing else; when it
\* returns the process is reaped and holds no port, the plugin holds no
\* process handle, no port and no URL, and every other plugin and process
\* is as before.
C15_StopKillsAndClears ==
    [][\A id \in PluginIds :
        (/\ last'.op = "stop"
         /\ last'.id = id
         /\ plugins[id] # None
         /\ is_server_running(SomeOf(plugins[id])))
        => LET pid == SomeOf(SomeOf(plugins[id]).server_process) IN
           /\ last'.ret = Unit
           /\ last'.sys = <<"kill", "wait">>
           /\ procs'[pid].state = "reaped"
           /\ ~procs'[pid].bound
           /\ \A q \in 1..Len(procs) : q # pid => procs'[q] = procs[q]
           /\ Len(procs') = Len(procs)
           /\ plugins'[id] # None
           /\ SomeOf(plugins'[id]).server_process = None
           /\ SomeOf(plugins'[id]).server_port = None
           /\ get_url(SomeOf(plugins'[id])) = None
           /\ ~is_server_running(SomeOf(plugins'[id]))
           /\ SomeOf(plugins'[id]).manifest = SomeOf(plugins[id]).manifest
           /\ \A other \in PluginIds \ {id} : plugins'[other] = plugins[other]]_vars

\* A running plugin has just been stopped while another one keeps running.
C15_Witness ==
    /\ last.op = "stop"
    /\ last.sys = <<"kill", "wait">>
    /\ plugins[last.id] # None
    /\ get_url(SomeOf(plugins[last.id])) = None
    /\ RunningIds # {}
    /\ \E pid \in 1..Len(procs) : procs[pid].state = "reaped"

\* C16: a stop that names an id the map does not hold, or a plugin that
\* holds no process, returns without an error, makes no system call and
\* leaves the plugin map and the process table as they were.
C16_StopIdleIsNoop ==
    [][\A id \in PluginIds :
        (/\ last'.op = "stop"
         /\ last'.id = id
         /\ (plugins[id] = None \/ ~is_server_running(SomeOf(plugins[id]))))
        => /\ last'.ret = Unit
           /\ last'.sys = <<>>
           /\ plugins' = plugins
           /\ procs' = procs]_vars

\* A stop of a plugin that had been started and stopped before, made while
\* another plugin was running.
C16_Witness ==
    /\ last.op = "stop"
    /\ last.sys = <<>>
    /\ plugins[last.id] # None
    /\ \E pid \in 1..Len(procs) :
            /\ procs[pid].state = "reaped"
            /\ procs[pid].dir = SomeOf(plugins[last.id]).dir
    /\ RunningIds # {}

\* The URL a caller expects for each port the system hands out.
ExpectedUrl(port) ==
    CASE port = 49152 -> "http://127.0.0.1:49152"
      [] port = 49153 -> "http://127.0.0.1:49153"

\* C17: a plugin has a URL exactly when it holds a process handle, and then
\* the URL is "http://127.0.0.1:<port>" for the port its provider was
\* launched with; a start that returns a port leaves the plugin with the URL
\* of that port, a start that fails and a stop leave it without a URL, and a
\* plugin just registered has none.
C17_UrlWhileRunning ==
    /\ [](\A id \in PluginIds :
            plugins[id] # None =>
                LET plugin == SomeOf(plugins[id]) IN
                /\ (get_url(plugin) # None) <=> is_server_running(plugin)
                /\ is_server_running(plugin) =>
                        get_url(plugin) = Some(ExpectedUrl(
                            procs[SomeOf(plugin.server_process)].port)))
    /\ [][\A id \in PluginIds :
            /\ (last'.op = "start" /\ last'.id = id /\ last'.ret.ok) =>
                    /\ plugins'[id] # None
                    /\ get_url(SomeOf(plugins'[id]))
                            = Some(ExpectedUrl(last'.ret.value))
            /\ (/\ last'.op \in {"start", "stop", "stop_all", "scan"}
                /\ last'.id \in {id, ""}
                /\ ~(last'.op = "start" /\ last'.ret.ok)
                /\ plugins'[id] # None)
                    => get_url(SomeOf(plugins'[id])) = None]_vars

\* Two plugins are running, each with the URL of its own port.
C17_Witness ==
    /\ plugins["demo"] # None
    /\ plugins["notes"] # None
    /\ get_url(SomeOf(plugins["demo"])) = Some("http://127.0.0.1:49153")
    /\ get_url(SomeOf(plugins["notes"])) = Some("http://127.0.0.1:49152")

\* C18: a handle_message call appends its message to the end of the pending
\* queue, once, whether or not a callback is registered for its channel, and
\* leaves the messages queued before it in place; when callbacks are
\* registered for the channel the message is dispatched to them as well as
\* queued; and no message is ever lost: every message handed to the bridge
\* is in the queue or has been returned by a poll.
C18_EveryMessageQueued ==
    /\ [](Len(pending_messages) + Len(polled) = Len(arrived))
    /\ [][arrived' # arrived =>
            LET message == arrived'[Len(arrived')] IN
            /\ arrived' = Append(arrived, message)
            /\ pending_messages' = Append(pending_messages, message)
            /\ polled' = polled
            /\ bridge_last'.op = "handle_message"
            /\ callbacks[message.channel] # <<>> =>
                    /\ bridge_last'.invoked # <<>>
                    /\ \A i \in 1..Len(bridge_last'.invoked) :
                            bridge_last'.invoked[i].message = message]_vars

\* The message handled last was dispatched to a callback and is queued,
\* behind a message on a channel nobody listens to.
C18_Witness ==
    /\ bridge_last.op = "handle_message"
    /\ bridge_last.invoked # <<>>
    /\ Len(pending_messages) >= 2
    /\ pending_messages[Len(pending_messages)] = bridge_last.invoked[1].message
    /\ callbacks[pending_messages[1].channel] = <<>>

\* C19: a poll returns the whole pending queue, in the order the messages
\* arrived, and leaves the queue empty; a poll that follows a poll with no
\* call in between returns the empty sequence; and at every moment the
\* messages returned by all the polls so far, followed by the queue, are the
\* messages handed to the bridge, in their order of arrival: every message
\* is returned by one poll and by no other.
C19_PollDrains ==
    /\ [](arrived = polled \o pending_messages)
    /\ [][bridge_last'.op = "poll_messages" =>
            /\ bridge_last'.ret = pending_messages
            /\ pending_messages' = <<>>
            /\ polled' = polled \o bridge_last'.ret
            /\ arrived' = arrived
            /\ bridge_last.op = "poll_messages" => bridge_last'.ret = <<>>]_vars

\* A poll has just returned two messages, after an earlier poll had
\* returned another one.
C19_Witness ==
    /\ bridge_last.op = "poll_messages"
    /\ Len(bridge_last.ret) = 2
    /\ Len(polled) = 3
    /\ pending_messages = <<>>
    /\ bridge_last.ret[1] # bridge_last.ret[2]

\* The callbacks a call invoked, in the order it invoked them.
InvokedCallbacks(step) == [i \in 1..Len(step.invoked) |-> step.invoked[i].cb]

\* C20: the callbacks of a channel are held in the order they were
\* registered; a handle_message call for a message on channel c invokes,
\* within the call, the callbacks registered for c, each once, in that order
\* and each with that message, and invokes no callback registered for
\* another channel; no other bridge call invokes a callback.
C20_DispatchInOrder ==
    /\ [](\A c \in Channels : \A i, j \in 1..Len(callbacks[c]) :
                i < j => callbacks[c][i] < callbacks[c][j])
    /\ [](\A c, d \in Channels : \A i \in 1..Len(callbacks[c]) :
                \A j \in 1..Len(callbacks[d]) :
                    callbacks[c][i] = callbacks[d][j] => (c = d /\ i = j))
    /\ [][IF arrived' # arrived
          THEN LET message == arrived'[Len(arrived')] IN
               /\ InvokedCallbacks(bridge_last') = callbacks[message.channel]
               /\ \A i \in 1..Len(bridge_last'.invoked) :
                        bridge_last'.invoked[i].message = message
               /\ \A c \in Channels \ {message.channel} :
                        \A i \in 1..Len(callbacks[c]) :
                            \A j \in 1..Len(bridge_last'.invoked) :
                                bridge_last'.invoked[j].cb # callbacks[c][i]
               /\ callbacks' = callbacks
          ELSE bridge_last'.invoked = <<>>]_vars

\* A message was dispatched to the two callbacks of its channel while
\* another channel had a callback of its own, registered between the two.
C20_Witness ==
    /\ bridge_last.op = "handle_message"
    /\ InvokedCallbacks(bridge_last) = <<1, 3>>
    /\ \E c \in Channels : callbacks[c] = <<2>>

\* What the parser makes of the text in hand.
ParseOfBody == serde_json_minimal_parse(SomeOf(body))

\* The entries of an object value under a key.
EntriesOf(v, key) == IF v[1] = "Object" THEN {e \in v[2] : e[1] = key} ELSE {}

\* The text in hand parses to an object with a string under "channel" and a
\* value under "data".
MessageShaped ==
    /\ ParseOfBody.ok
    /\ \E c \in EntriesOf(ParseOfBody.value, "channel") : c[2][1] = "String"
    /\ EntriesOf(ParseOfBody.value, "data") # {}

\* C21: whenever the text fails to parse, or parses to anything but an
\* object with a string under "channel" and a value under "data", from_js
\* gives the channel "default" and the text itself, unchanged, as the data.
C21_FallbackToDefault ==
    (msg # None /\ ~MessageShaped) =>
        SomeOf(msg) = IpcMessage("default", SomeOf(body))

\* from_js was applied to a text with white space around an object whose
\* channel is not a string, and gave the whole text on the default channel.
C21_Witness ==
    /\ msg # None
    /\ ParseOfBody.ok
    /\ EntriesOf(ParseOfBody.value, "channel") # {}
    /\ EntriesOf(ParseOfBody.value, "data") # {}
    /\ ~MessageShaped
    /\ trim(SomeOf(body)) # SomeOf(body)
    /\ SomeOf(msg) = IpcMessage("default", SomeOf(body))

\* C22: when the text parses to an object with a string under "channel" and
\* a value under "data", from_js gives that channel and, as the data, the
\* serialization of the value, whatever its type; a string is quoted again:
\* "hello" on channel "demo" gives the data "\"hello\"".
C22_ChannelAndSerializedData ==
    /\ (msg # None /\ MessageShaped) =>
           /\ \E c \in EntriesOf(ParseOfBody.value, "channel") :
                  SomeOf(msg).channel = c[2][2]
           /\ \E d \in EntriesOf(ParseOfBody.value, "data") :
                  SomeOf(msg).data \in Display(d[2])
    /\ (msg # None /\ body = Some("{\"channel\":\"demo\",\"data\":\"hello\"}")) =>
           SomeOf(msg) = IpcMessage("demo", "\"hello\"")
    /\ (msg # None /\ body = Some("{\"channel\":\"demo\",\"data\":0.50}")) =>
           SomeOf(msg) = IpcMessage("demo", "0.5")
    /\ (msg # None /\ body = Some("{\"data\":[1, \"a\"],\"channel\":\"a b\"}")) =>
           SomeOf(msg) = IpcMessage("a b", "[1,\"a\"]")

\* from_js was applied to the text of the message "hello" on channel "demo".
C22_Witness ==
    /\ body = Some("{\"channel\":\"demo\",\"data\":\"hello\"}")
    /\ msg = Some(IpcMessage("demo", "\"hello\""))

\* C23: parsing the serialization of a value succeeds and gives the value
\* back, also when a string or a key of an object in it holds a double quote
\* or a backslash.
C23_RoundTrip ==
    (tree # None /\ parse_result # None) => parse_result = Some(Ok(SomeOf(tree)))

\* Texts of objects that repeat a key, and of objects and arrays with a
\* comma before the closing bracket, on their own and inside a message.
RepeatedKeyBodies ==
    {"{\"channel\":\"a\",\"channel\":\"demo\",\"data\":1}",
     "{\"channel\":\"demo\",\"data\":1,\"data\":2}",
     "{\"channel\":\"demo\",\"channel\":7,\"data\":1}",
     "{\"channel\":\"demo\",\"data\":{\"a\":1,\"a\":2}}",
     "{\"a\":1,\"a\":2}"}

TrailingCommaBodies ==
    {"{\"channel\":\"demo\",\"data\":1,}",
     "{\"channel\":\"demo\",\"data\":[1,]}",
     "{\"channel\":\"demo\",\"data\":{\"a\":1,}}",
     "{\"channel\":\"demo\",\"data\":[[1,2,],3]}",
     "[1,]",
     "{\"a\":1,}"}

\* C24: a text with a repeated key or a trailing comma, at the top or inside
\* a nested value, is rejected by the parser as a whole, and from_js gives
\* the default channel with the text for it.
C24_AmbiguitiesRejected ==
    (body # None /\ SomeOf(body) \in RepeatedKeyBodies \cup TrailingCommaBodies) =>
        /\ parse_result # None => ~SomeOf(parse_result).ok
        /\ msg # None => SomeOf(msg) = IpcMessage("default", SomeOf(body))

\* C25: set_bounds on a wrapper that holds no platform view returns the
\* NotInitialized error and makes no platform call.
C25_SetBoundsReportsUninitialized ==
    [][(managed_last'.op = "set_bounds" /\ managed.webview = None) =>
           /\ managed_last'.ret = Err("NotInitialized")
           /\ managed_last'.calls = <<>>]_vars

\* C27: initialize on a wrapper that holds a platform view returns
\* AlreadyInitialized, makes no platform call (no native handle is asked
\* for, no view is built) and leaves the wrapper and its view as they were.
C27_InitializeTwice ==
    [][(managed_last'.op = "initialize" /\ managed.webview # None) =>
           /\ managed_last'.ret = Err("AlreadyInitialized")
           /\ managed_last'.calls = <<>>
           /\ managed' = managed
           /\ built' = built]_vars

\* initialize was called on a wrapper whose view had been moved, and was
\* refused; the one view built is still held, with the bounds it was given.
C27_Witness ==
    /\ managed_last = ManagedStep("initialize", Err("AlreadyInitialized"), <<>>)
    /\ built = 1
    /\ managed.webview # None
    /\ SomeOf(managed.webview).bounds = WebViewBounds(10, 20, 300, 200)

\* C26: while the surface holds no view, load_url, eval and send_to_js each
\* return NotInitialized, make no platform call and change nothing of the
\* surface: before the first attempt, between failed attempts and after the
\* attempts are exhausted.
C26_CallsWithoutView ==
    [][(handler' \in {"load_url", "eval", "send_to_js"} /\ webview = None) =>
           /\ ret' = Err("NotInitialized")
           /\ calls' = <<>>
           /\ UNCHANGED <<active, webview, init_attempts, cached_rect, frame_count,
                          last_init_frame, emitted, bridgeVars>>]_vars

\* send_to_js was refused on an active surface whose attempts are exhausted.
C26_Witness ==
    /\ handler = "send_to_js"
    /\ ret = Err("NotInitialized")
    /\ active
    /\ webview = None
    /\ init_attempts = MAX_INIT_ATTEMPTS

\* The directories of the disk that hold a manifest file which parses and
\* gives an id, a name and a version.
ValidDirs ==
    {e \in Disk : /\ e.is_dir
                  /\ e.manifest # None
                  /\ SomeOf(e.manifest).wellformed
                  /\ SomeOf(e.manifest).id # None
                  /\ SomeOf(e.manifest).name # None
                  /\ SomeOf(e.manifest).version # None}

IdOfDir(e) == SomeOf(SomeOf(e.manifest).id)

\* The ids a scan returned and the directories it loaded them from.
ScanIds(step) == step.ret.value
ScanDirs(step) == step.dirs

\* C28: a scan registers a directory exactly when it holds a manifest that
\* parses with id, name and version: every such directory is loaded and its
\* id is in the map afterwards with an entry of such a directory; files,
\* directories without a manifest and directories with a malformed or
\* incomplete manifest are skipped, and an id only they carry is left as it
\* was.
C28_ScanRegistersValidOnly ==
    [][last'.op = "scan" =>
           /\ {ScanDirs(last')[i] : i \in 1..Len(ScanDirs(last'))} = {e.name : e \in ValidDirs}
           /\ Len(ScanDirs(last')) = Cardinality(ValidDirs)
           /\ \A e \in ValidDirs :
                  /\ plugins'[IdOfDir(e)] # None
                  /\ \E d \in ValidDirs :
                         /\ IdOfDir(d) = IdOfDir(e)
                         /\ SomeOf(plugins'[IdOfDir(e)]).dir = d.name
                         /\ SomeOf(plugins'[IdOfDir(e)]).manifest.version
                                = SomeOf(SomeOf(d.manifest).version)
           /\ \A id \in PluginIds :
                  (\A e \in ValidDirs : IdOfDir(e) # id) => plugins'[id] = plugins[id]]_vars

\* A scan was made over a disk with a file, a directory without a manifest,
\* one with a malformed and one with an incomplete manifest: the valid
\* plugins are registered, the id of the incomplete manifest is not.
C28_Witness ==
    /\ last.op = "scan"
    /\ Cardinality(Disk \ ValidDirs) = 4
    /\ plugins["demo"] # None
    /\ plugins["notes"] # None
    /\ plugins["ghost"] = None

\* C29: when two directories of one scan carry the same id, the entry under
\* the id after the scan is the one of the directory scanned first.
C29_FirstScannedKept ==
    [][last'.op = "scan" =>
           \A i \in 1..Len(ScanIds(last')) :
               (\A j \in 1..(i - 1) : ScanIds(last')[j] # ScanIds(last')[i]) =>
                   SomeOf(plugins'[ScanIds(last')[i]]).dir = ScanDirs(last')[i]]_vars

\* C30: ids repeated in one scan are last-wins: every id the scan returns
\* is a key of the map afterwards, and the one entry under it is that of the
\* directory with that id scanned last.
C30_LastScannedWins ==
    [][last'.op = "scan" =>
           /\ Len(ScanIds(last')) = Len(ScanDirs(last'))
           /\ \A i \in 1..Len(ScanIds(last')) :
                  /\ plugins'[ScanIds(last')[i]] # None
                  /\ (\A j \in (i + 1)..Len(ScanIds(last')) :
                          ScanIds(last')[j] # ScanIds(last')[i]) =>
                         SomeOf(plugins'[ScanIds(last')[i]]).dir = ScanDirs(last')[i]]_vars

\* A scan returned the id demo twice, and the entry under it is the one of
\* the directory read second.
C30_Witness ==
    /\ last.op = "scan"
    /\ \E i, j \in 1..Len(ScanIds(last)) :
           /\ i < j
           /\ ScanIds(last)[i] = "demo"
           /\ ScanIds(last)[j] = "demo"
           /\ ScanDirs(last)[i] = "demo-native"
           /\ SomeOf(plugins["demo"]).dir = "demo"
           /\ SomeOf(plugins["demo"]).manifest.version = "1.0"

\* C31 as stated: a frame tick on an inactive surface changes nothing but
\* frame_count; the notification stream too is left as it was.
C31_InactiveTickOnlyCounts ==
    [][(handler' = "NextFrame" /\ ~active) =>
           /\ frame_count' = frame_count + 1
           /\ UNCHANGED <<active, webview, init_attempts, cached_rect,
                          last_init_frame, emitted>>]_vars

\* C31: a frame tick on an inactive surface adds one to frame_count, makes
\* no platform call and leaves init_attempts, last_init_frame, the held
\* view with its visibility, and the cached rect as they were; the only
\* notifications it adds are those of the messages pending in the bridge of
\* a held view, which it drains.
C31_InactiveTickCountsAndDrains ==
    [][(handler' = "NextFrame" /\ ~active) =>
           /\ frame_count' = frame_count + 1
           /\ calls' = <<>>
           /\ UNCHANGED <<active, webview, init_attempts, cached_rect, last_init_frame>>
           /\ emitted' = IF webview # None
                         THEN emitted \o IpcActions(pending_messages)
                         ELSE emitted
           /\ webview # None => pending_messages' = <<>>
           /\ webview = None => pending_messages' = pending_messages]_vars

\* A frame tick reached an inactive surface whose view is hidden and whose
\* bridge held a message, and the message was emitted.
C31_Witness ==
    /\ handler = "NextFrame"
    /\ ~active
    /\ webview # None
    /\ ~SomeOf(webview).visible
    /\ bridge_last.op = "poll_messages"
    /\ bridge_last.ret # <<>>
    /\ Len(emitted) >= 2
    /\ emitted[Len(emitted)] = IpcMessageAction("demo", "42")

\* C32: in every entry of the plugin map a port is recorded exactly when a
\* process handle is held, after any discover, start, stop and stop_all, and
\* no start returns "Server running but no port".
C32_PortIffProcess ==
    /\ \A id \in PluginIds :
          plugins[id] # None =>
              (SomeOf(plugins[id]).server_port # None
                   <=> SomeOf(plugins[id]).server_process # None)
    /\ last.op = "start" => last.ret # Err("Server running but no port")

\* A start found its plugin already running and took the branch that reads
\* the recorded port, while another plugin, stopped before, holds neither
\* process nor port.
C32_Witness ==
    /\ last.op = "start"
    /\ last.sys = <<>>
    /\ last.ret.ok
    /\ SomeOf(plugins[last.id]).server_process # None
    /\ SomeOf(plugins[last.id]).server_port = Some(last.ret.value)
    /\ \E other \in PluginIds \ {last.id} :
          /\ plugins[other] # None
          /\ SomeOf(plugins[other]).server_process = None
          /\ SomeOf(plugins[other]).server_port = None
          /\ \E pid \in Unowned : procs[pid].dir = SomeOf(plugins[other]).dir

\* C33: a scan leaves every plugin it loaded with a fresh entry that holds
\* no process and no port; the process an entry it replaced was running is
\* killed and reaped, and after the scan every child process that no entry
\* of the map owns is reaped.
C33_RescanReplacesAndReaps ==
    [][last'.op = "scan" =>
          /\ \A i \in 1..Len(last'.ret.value) :
                LET id == last'.ret.value[i] IN
                /\ plugins'[id] # None
                /\ SomeOf(plugins'[id]).server_process = None
                /\ SomeOf(plugins'[id]).server_port = None
                /\ (plugins[id] # None /\ is_server_running(SomeOf(plugins[id]))) =>
                       procs'[SomeOf(SomeOf(plugins[id]).server_process)].state = "reaped"
          /\ \A pid \in 1..Len(procs') :
                (\A id \in PluginIds :
                    plugins'[id] = None
                    \/ SomeOf(plugins'[id]).server_process # Some(pid))
                => procs'[pid].state = "reaped"]_vars

\* A scan replaced the entry of a plugin whose provider was serving: the
\* scan killed and reaped it and the plugin is now not running.
C33_Witness ==
    /\ last.op = "scan"
    /\ last.sys = <<"kill", "wait">>
    /\ plugins["demo"] # None
    /\ ~is_server_running(SomeOf(plugins["demo"]))
    /\ get_url(SomeOf(plugins["demo"])) = None
    /\ \E pid \in 1..Len(procs) :
          /\ procs[pid].state = "reaped"
          /\ procs[pid].dir \in {"demo", "demo-native"}

\* The entries of the map whose provider process has exited on its own and
\* has not been stopped by the supervisor.
ExitedIds ==
    {id \in PluginIds :
        /\ plugins[id] # None
        /\ SomeOf(plugins[id]).server_process # None
        /\ procs[SomeOf(SomeOf(plugins[id]).server_process)].state = "exited"}

\* C34: an entry whose provider has exited on its own still reports running
\* and still returns the URL of its port; a start on it returns that port
\* and spawns nothing; it stays so until a stop, a stop_all, a rescan or the
\* drop of the loader stops it.
C34_RunningFollowsHandle ==
    [][\A id \in ExitedIds :
          LET plugin == SomeOf(plugins[id])
              pid == SomeOf(plugin.server_process) IN
          /\ is_server_running(plugin)
          /\ get_url(plugin) = Some(UrlOfPort(procs[pid].port))
          /\ (last'.op = "start" /\ last'.id = id) =>
                 /\ last'.ret = Ok(procs[pid].port)
                 /\ last'.sys = <<>>
                 /\ Len(procs') = Len(procs)
          /\ last'.op \notin {"stop", "stop_all", "scan", "drop"} =>
                 /\ plugins'[id] = plugins[id]
                 /\ procs'[pid].state = "exited"
          /\ (last'.op = "stop" /\ last'.id = id) =>
                 /\ ~is_server_running(SomeOf(plugins'[id]))
                 /\ get_url(SomeOf(plugins'[id])) = None
                 /\ procs'[pid].state = "reaped"]_vars

\* A start was asked of a plugin whose provider had exited: it returned the
\* old port without a bind or a spawn, and the provider is still exited.
C34_Witness ==
    /\ last.op = "start"
    /\ last.id \in ExitedIds
    /\ last.ret.ok
    /\ last.sys = <<>>
    /\ get_url(SomeOf(plugins[last.id])) = Some(UrlOfPort(last.ret.value))

\* C35: no two plugins that are running at the same time have the same port
\* recorded.
C35_DistinctPorts ==
    \A a \in RunningIds : \A b \in RunningIds \ {a} :
        SomeOf(plugins[a]).server_port # SomeOf(plugins[b]).server_port

\* C36: whenever the surface is active, holds a view and has a cached rect
\* (a layout pass has completed), the bounds of the platform view are those
\* of the cached rect.
C36_BoundsMatchCachedRect ==
    (active /\ webview # None /\ cached_rect # None) =>
        SomeOf(webview).bounds = BoundsOfRect(SomeOf(cached_rect))

\* WebViewContainer holding a view whose is_visible (wry_wrapper.rs:240-242)
\* is true.
is_visible == webview # None /\ SomeOf(webview).visible

\* The last step was a frame tick whose set_visible(true) the platform
\* refused.
ShowRefused ==
    /\ handler = "NextFrame"
    /\ calls = <<Call("set_visible", TRUE, FALSE)>>

\* C37: set_active(true) on a surface that holds a hidden view makes no
\* platform call and leaves the view hidden; a view goes from hidden to
\* visible only in a frame tick of an active surface; every frame tick of
\* an active surface that holds a view calls set_visible(true), after which
\* the view is visible (the platform accepting the call); and with frame
\* ticks delivered, a surface that is active and holds a view comes to have
\* it visible, unless it is deactivated first or the platform refuses.
C37_ShownOnNextTick ==
    /\ [][/\ (handler' = "set_active" /\ ~active /\ active' /\ webview # None) =>
                /\ calls' = <<>>
                /\ webview' = webview
          /\ (webview # None /\ ~SomeOf(webview).visible
                 /\ SomeOf(webview').visible) =>
                /\ handler' = "NextFrame"
                /\ active
          /\ (handler' = "NextFrame" /\ active /\ webview # None) =>
                \E ok \in BOOLEAN :
                    /\ calls' = <<Call("set_visible", TRUE, ok)>>
                    /\ ok => SomeOf(webview').visible]_vars
    /\ (active /\ webview # None /\ frame_count < MaxDrainFrame)
           ~> (~active \/ is_visible \/ ShowRefused)

\* set_active(true) has just run on a surface whose view is hidden: the
\* surface is active and the view is still hidden.
C37_Witness ==
    /\ handler = "set_active"
    /\ active
    /\ webview # None
    /\ ~SomeOf(webview).visible
    /\ calls = <<>>
    /\ frame_count < MaxDrainFrame

\* The IpcMessage notifications of the stream, in the order emitted.
EmittedIpc(stream) == SelectSeq(stream, LAMBDA a : a.kind = "IpcMessage")

\* C38: the IpcMessage notifications emitted so far, followed by those of
\* the messages still queued, are the messages that arrived, each once, in
\* arrival order, with its channel and payload; and every frame tick or
\* geometry event handled by a surface that holds a view, active or not,
\* empties the queue and leaves every message that has arrived emitted.
C38_EveryMessageOnceInOrder ==
    /\ [](/\ Len(EmittedIpc(emitted)) + Len(pending_messages) = Len(arrived)
          /\ \A i \in 1..Len(arrived) :
                LET n == IF i <= Len(EmittedIpc(emitted))
                         THEN EmittedIpc(emitted)[i]
                         ELSE [kind |-> "IpcMessage",
                               channel |-> pending_messages[i - Len(EmittedIpc(emitted))].channel,
                               data |-> pending_messages[i - Len(EmittedIpc(emitted))].data]
                IN n.channel = arrived[i].channel /\ n.data = arrived[i].data)
    /\ [][(handler' \in {"NextFrame", "WindowGeomChange"} /\ webview # None) =>
             /\ pending_messages' = <<>>
             /\ Len(EmittedIpc(emitted')) = Len(arrived)
             /\ Len(emitted') = Len(emitted) + Len(pending_messages)]_vars

\* A geometry event handled by an inactive surface drained two messages of
\* different channels that had arrived since the last event, after an
\* earlier message had been emitted.
C38_Witness ==
    /\ handler = "WindowGeomChange"
    /\ ~active
    /\ webview # None
    /\ bridge_last.op = "poll_messages"
    /\ Len(bridge_last.ret) = 2
    /\ bridge_last.ret[1].channel # bridge_last.ret[2].channel
    /\ Len(EmittedIpc(emitted)) = 3
    /\ pending_messages = <<>>

\* C39: from the moment the ipc closure has taken the mutex until it
\* returns, the mutex is held and the message it dispatches is not in the
\* pending queue (the queue and what was polled hold every message that
\* arrived but this one); a callback that locks the bridge ends up waiting
\* for the mutex; and once it waits nothing moves any more: the closure
\* does not return, the mutex is not released, the message is never queued
\* and the host can neither poll nor register.
C39_DispatchUnderLock ==
    /\ [](closure.pc \in {"dispatch", "blocked"} =>
             /\ ipc_lock = Some("ipc_handler")
             /\ Len(polled) + Len(pending_messages) = Len(arrived) - 1
             /\ polled \o pending_messages = SubSeq(arrived, 1, Len(arrived) - 1))
    /\ [](closure.pc = "idle" =>
             /\ ipc_lock = None
             /\ polled \o pending_messages = arrived)
    /\ [][(bridge_last'.op = "callback"
              /\ bridge_last'.invoked[1].cb \in relocking) =>
             closure'.pc = "blocked"]_vars
    /\ [][closure.pc # "blocked"]_vars

\* A callback that locks the bridge was called with the second message
\* while the first is still in the queue: the closure waits for the mutex
\* it holds, and its message is not queued.
C39_Witness ==
    /\ closure.pc = "blocked"
    /\ ipc_lock = Some("ipc_handler")
    /\ Len(arrived) = 2
    /\ pending_messages = <<arrived[1]>>
    /\ bridge_last.op = "callback"
    /\ bridge_last.invoked[1].message = arrived[2]

\* A load issued to the surface while it held a view, after the latest
\* successful start.
LoadedSinceStart ==
    \E i \in 1..Len(loads) : loads[i].initialized /\ loads[i].start = starts

\* C40: the screen issues a URL load only while its plugin is running, and
\* then with the plugin's URL; the timeout started by a successful start,
\* when it fires with the plugin running and the surface initialized, issues
\* the load to the initialized surface; the Initialized notification, when
\* the screen handles it with the plugin running, issues it; a timeout that
\* fires with the plugin not running issues nothing; and once the plugin
\* runs and the surface is initialized, the load is issued to the
\* initialized surface unless the plugin is stopped first.
C40_UrlLoadedOnceRunningAndInitialized ==
    /\ [][loads' # loads =>
             /\ screen_is_server_running
             /\ Len(loads') = Len(loads) + 1
             /\ loads'[Len(loads')].url =
                   UrlOfPort(SomeOf(SomeOf(plugins[SomeOf(plugin_id)]).server_port))
             /\ loads'[Len(loads')].initialized = (webview # None)
             /\ handler' = "load_url"
             /\ ret' = IF webview # None THEN Unit ELSE Err("NotInitialized")]_vars
    /\ [][(load_url_timer /\ ~load_url_timer' /\ pending_url_load) =>
             /\ ~pending_url_load'
             /\ (screen_is_server_running /\ webview # None) =>
                    /\ Len(loads') = Len(loads) + 1
                    /\ loads'[Len(loads')].initialized
             /\ ~screen_is_server_running => loads' = loads]_vars
    /\ [][(actions_seen' = actions_seen + 1
              /\ emitted[actions_seen + 1].kind = "Initialized"
              /\ screen_is_server_running) =>
             /\ Len(loads') = Len(loads) + 1
             /\ loads'[Len(loads')].initialized]_vars
    /\ (screen_is_server_running /\ webview # None)
           ~> (~screen_is_server_running \/ LoadedSinceStart)

\* The timeout fired before the surface was initialized and its load was
\* refused; the surface was initialized afterwards and the Initialized
\* notification made the screen issue the load again, to the initialized
\* surface, the plugin running all along.
C40_Witness ==
    /\ Len(loads) = 2
    /\ ~loads[1].initialized
    /\ loads[2].initialized
    /\ loads[1].start = 1
    /\ loads[2].start = 1
    /\ starts = 1
    /\ screen_is_server_running
    /\ handler = "load_url"
    /\ ret = Unit
    /\ ~load_url_timer
    /\ emitted[actions_seen].kind = "Initialized"

====
